---- MODULE Spec2Model ----
(***************************************************************************)
(* A model of crates/avdl-parser/src/parser.rs: the protocol parser        *)
(* (parse_protocol), the declaration parsers (parse_record, parse_enum,    *)
(* parse_fixed, parse_record_field and its four alternatives), the type    *)
(* mapper (map_type_to_schema), and the two resolution passes that `parse` *)
(* runs over the parsed list (schema_solver, namespace_solver).            *)
(*                                                                         *)
(* The input text is represented by its token structure: a protocol is an  *)
(* optional @namespace and a body of declaration items, a record item is a *)
(* name, an optional @namespace and field items, a field item is a type    *)
(* expression and a name.  Identifiers are sequences of characters, so     *)
(* that parse_var_name and Name::new decide them as the code does.         *)
(* nom's results are "Ok", "Err" (Err::Error, recoverable), "Failure"      *)
(* (Err::Failure, raised by cut) and "Panic" (unwrap/expect/todo!).        *)
(***************************************************************************)
EXTENDS Integers, Sequences, FiniteSets, TLC

\* Longest protocol body (number of declarations) that Init draws.
MaxDecls == 3

(***************************************************************************)
(* Characters and names                                                    *)
(***************************************************************************)
AsciiAlpha == {"A", "B", "C", "D", "S", "x", "y"}
AsciiDigit == {"1"}
\* Alphanumeric for char::is_alphanumeric (Unicode) but not ASCII.
UnicodeAlnum == {"e_acute"}

\* std char::is_alphanumeric: Unicode letters and digits.
is_alphanumeric(c) == c \in AsciiAlpha \cup AsciiDigit \cup UnicodeAlnum

\* nom AsChar::is_alpha for char: ASCII letters only.
is_alpha(c) == c \in AsciiAlpha

\* `let v = e; body`: e is evaluated once and bound to the parameter of Op.
With(v, Op(_)) == Op(v)

\* Option<T> is a sequence of length at most one.
None == << >>
Some(v) == <<v>>

RECURSIVE take_while_var(_)
\* take_while(|c| is_alphanumeric(c) || c == '_'): length of the longest prefix.
take_while_var(s) ==
    IF s = << >> THEN 0
    ELSE IF is_alphanumeric(Head(s)) \/ Head(s) = "_"
         THEN 1 + take_while_var(Tail(s))
         ELSE 0

\* parse_var_name: the prefix taken, verified to start with a letter or '_'.
parse_var_name(s) ==
    With(take_while_var(s), LAMBDA n :
        IF n > 0 /\ (is_alpha(s[1]) \/ s[1] = "_")
        THEN [st |-> "Ok", out |-> SubSeq(s, 1, n), rest |-> SubSeq(s, n + 1, Len(s))]
        ELSE [st |-> "Err", out |-> << >>, rest |-> s])

\* An identifier token: parse_var_name must take the whole token.
var_name_token(s) ==
    With(parse_var_name(s), LAMBDA r : r.st = "Ok" /\ r.rest = << >>)

\* Name { name, namespace }.
Name(n, ns) == [name |-> n, namespace |-> ns]
NoName == Name(<< >>, None)

\* Name::new on an identifier: apache_avro accepts [A-Za-z_][A-Za-z0-9_]* only.
NameNew(s) ==
    IF /\ s # << >>
       /\ (is_alpha(s[1]) \/ s[1] = "_")
       /\ \A k \in 1..Len(s) : s[k] \in AsciiAlpha \cup AsciiDigit \cup {"_"}
    THEN [st |-> "Ok", name |-> Name(s, None)]
    ELSE [st |-> "Err", name |-> NoName]

\* Name::fully_qualified_name: the own namespace, else the non-empty enclosing one.
fully_qualified_name(name, enclosing_namespace) ==
    Name(name.name,
         IF name.namespace # None THEN name.namespace
         ELSE IF enclosing_namespace = Some("") THEN None
         ELSE enclosing_namespace)

(***************************************************************************)
(* Schema trees                                                            *)
(***************************************************************************)
Schema(tag, name, fields, kids, symbols, size, doc, aliases) ==
    [tag |-> tag, name |-> name, fields |-> fields, kids |-> kids,
     symbols |-> symbols, size |-> size, doc |-> doc, aliases |-> aliases]

Prim(tag) == Schema(tag, NoName, << >>, << >>, << >>, 0, None, None)
Array(s) == Schema("Array", NoName, << >>, <<s>>, << >>, 0, None, None)
Map(s) == Schema("Map", NoName, << >>, <<s>>, << >>, 0, None, None)
Union(ss) == Schema("Union", NoName, << >>, ss, << >>, 0, None, None)
Ref(name) == Schema("Ref", name, << >>, << >>, << >>, 0, None, None)
Record(name, aliases, doc, fields) ==
    Schema("Record", name, fields, << >>, << >>, 0, doc, aliases)
Enum(name, aliases, doc, symbols) ==
    Schema("Enum", name, << >>, << >>, symbols, 0, doc, aliases)
Fixed(name, aliases, doc, size) ==
    Schema("Fixed", name, << >>, << >>, << >>, size, doc, aliases)

\* RecordField { name, doc, default, schema, order, aliases, position, .. }.
RecordField(name, doc, default, schema, order, aliases, position) ==
    [name |-> name, doc |-> doc, default |-> default, schema |-> schema,
     order |-> order, aliases |-> aliases, position |-> position]

(***************************************************************************)
(* Input syntax                                                            *)
(***************************************************************************)
\* Type expressions as written in a field declaration.
TKeyword(kw) == [k |-> "keyword", kw |-> kw, id |-> << >>, args |-> << >>]
TArray(t) == [k |-> "array", kw |-> "", id |-> << >>, args |-> <<t>>]
TMap(t) == [k |-> "map", kw |-> "", id |-> << >>, args |-> <<t>>]
TUnion(ts) == [k |-> "union", kw |-> "", id |-> << >>, args |-> ts]
TIdent(id) == [k |-> "ident", kw |-> "", id |-> id, args |-> << >>]

\* What may stand between two grammar tokens besides white space: a line
\* comment `// ..\n`, a block comment `/* .. */`, a doc comment `/** text */`.
\* A gap of the text is a sequence of them, each followed by white space.
Comment(k) == [k |-> k, text |-> << >>]
DocComment(text) == [k |-> "doc", text |-> text]

\* Annotations: `@order("v")`, `@aliases(["a", ..])`, `@namespace("ns")`.
OrderAnnotation(v) == [k |-> "order", v |-> <<v>>]
AliasesAnnotation(as) == [k |-> "aliases", v |-> as]
NamespaceAnnotation(ns) == [k |-> "namespace", v |-> <<ns>>]

\* Default literals: `null`, `true`, `false`, a digit sequence, a number with
\* a point or an exponent ("float"), a quoted string ("string", or "uuid" when
\* its content is a UUID), a bare identifier ("ident"), `[v, ..]` ("list") and
\* `{"k": v, ..}` ("map", items are the entries).
Literal(k, digits, items) == [k |-> k, digits |-> digits, items |-> items]

\* `"key": value` of a map default, and (String, Value) of a map value.
MapEntry(key, value) == [key |-> key, value |-> value]

\* `lead [@logicalType("tag")] type mid annotations name [= default] tail ;`
\* where lead, mid and tail are gaps.
FieldText(lead, logical, type, mid, annotations, name, default, tail) ==
    [lead |-> lead, logical |-> logical, type |-> type, mid |-> mid,
     annotations |-> annotations, name |-> name, default |-> default,
     tail |-> tail]

\* `[@logicalType("tag")] type name;`
FieldItem(logical, type, name) ==
    FieldText(<< >>, logical, type, << >>, << >>, name, None, << >>)

\* `lead annotations record name { fields }`, `lead enum name { symbols }`,
\* `lead fixed name(size);` (size -1: the size is missing).
DeclarationText(kind, lead, annotations, name, fields, symbols, size) ==
    [kind |-> kind, lead |-> lead, annotations |-> annotations, name |-> name,
     fields |-> fields, symbols |-> symbols, size |-> size]

\* `[@namespace("ns")] record name { fields }`
RecordItem(name, ns, fields) ==
    DeclarationText("record", << >>,
                    IF ns = None THEN << >> ELSE <<NamespaceAnnotation(ns[1])>>,
                    name, fields, << >>, 0)
EnumItem(name, symbols) ==
    DeclarationText("enum", << >>, << >>, name, << >>, symbols, 0)
FixedItem(name, size) ==
    DeclarationText("fixed", << >>, << >>, name, << >>, << >>, size)

(***************************************************************************)
(* Comments, doc comments and annotations                                  *)
(***************************************************************************)
\* parse_comment on a gap: `/*` .. `*/` (a doc comment begins with `/*` too)
\* or `//` .. `\n`; it fails where no comment stands.
parse_comment(gap) ==
    IF gap # << >> /\ Head(gap).k \in {"line", "block", "doc"}
    THEN [st |-> "Ok", rest |-> Tail(gap)]
    ELSE [st |-> "Err", rest |-> gap]

\* One side of space_or_comment_delimited: white space, opt(parse_comment),
\* white space.  At most one comment is skipped.
space_or_comment(gap) == parse_comment(gap).rest

RECURSIVE space_or_comment_times(_, _)
\* n sides of space_or_comment_delimited in a row.
space_or_comment_times(gap, n) ==
    IF n = 0 THEN gap ELSE space_or_comment_times(space_or_comment(gap), n - 1)

\* White space, for str::trim.
is_whitespace(c) == c = " "

RECURSIVE trim_start(_)
trim_start(s) ==
    IF s # << >> /\ is_whitespace(Head(s)) THEN trim_start(Tail(s)) ELSE s

RECURSIVE trim_end(_)
trim_end(s) ==
    IF s # << >> /\ is_whitespace(s[Len(s)])
    THEN trim_end(SubSeq(s, 1, Len(s) - 1))
    ELSE s

\* str::trim
trim(s) == trim_end(trim_start(s))

\* opt(parse_doc): a doc comment standing first in the gap is taken and its
\* text trimmed.
opt_parse_doc(gap) ==
    IF gap # << >> /\ Head(gap).k = "doc"
    THEN [doc |-> Some(trim(Head(gap).text)), rest |-> Tail(gap)]
    ELSE [doc |-> None, rest |-> gap]

\* The values parse_order accepts.
parse_order(v) == v \in {"ascending", "descending", "ignore"}

\* An annotation parses: parse_order checks its value, the others take any.
annotation_parses(a) == a.k = "order" => parse_order(a.v[1])

\* The parsers are tried in one fixed order, as tuple((opt(..), opt(..)))
\* does: @order before @aliases, @aliases before @namespace.
permutation_opt_in_order(annotations, open) ==
    IF \/ annotations = << >>
       \/ Head(annotations).k \notin open
       \/ ~annotation_parses(Head(annotations))
    THEN 0
    ELSE IF /\ Len(annotations) >= 2
            /\ annotations[2].k \in open
            /\ annotation_parses(annotations[2])
            /\ <<annotations[1].k, annotations[2].k>>
                   \in {<<"order", "aliases">>, <<"aliases", "namespace">>}
    THEN 2
    ELSE 1

RECURSIVE permutation_opt(_, _)
\* permutation_opt over the parsers of `open`: how many annotations it takes.
\* Each parser is tried where the last one ended and is used at most once; it
\* ends where none of the parsers left matches.
permutation_opt(annotations, open) ==
    IF annotations = << >> THEN 0
    ELSE IF Head(annotations).k \in open /\ annotation_parses(Head(annotations))
    THEN 1 + permutation_opt(Tail(annotations), open \ {Head(annotations).k})
    ELSE 0

\* The Option a parser of permutation_opt returns: the value of the annotation
\* of kind k among the n taken.
annotation_value(annotations, n, k) ==
    IF \E j \in 1..n : annotations[j].k = k
    THEN Some(annotations[CHOOSE j \in 1..n : annotations[j].k = k].v)
    ELSE None

(***************************************************************************)
(* Type mapper and default-parser selection                                *)
(***************************************************************************)
\* The keyword table of map_type_to_schema (decimal stands for `decimal(p, s)`).
KeywordSchema(kw) ==
    CASE kw = "null" -> Prim("Null")
      [] kw = "boolean" -> Prim("Boolean")
      [] kw = "string" -> Prim("String")
      [] kw = "int" -> Prim("Int")
      [] kw = "double" -> Prim("Double")
      [] kw = "float" -> Prim("Float")
      [] kw = "long" -> Prim("Long")
      [] kw = "bytes" -> Prim("Bytes")
      [] kw = "time_ms" -> Prim("TimeMillis")
      [] kw = "timestamp_ms" -> Prim("TimestampMillis")
      [] kw = "date" -> Prim("Date")
      [] kw = "uuid" -> Prim("Uuid")
      [] kw = "decimal" -> Prim("Decimal")

TypeErr(st) == [st |-> st, schema |-> Prim("Null")]

\* SchemaKind::is_named.
is_named(s) == s.tag \in {"Record", "Enum", "Fixed", "Ref"}

\* UnionSchema::new: no nested union, no two members of the same unnamed kind.
UnionSchemaNew(ss) ==
    IF \/ \E a \in 1..Len(ss) : ss[a].tag = "Union"
       \/ \E a, b \in 1..Len(ss) :
            a < b /\ ss[a].tag = ss[b].tag /\ ~is_named(ss[a])
    THEN TypeErr("Err")
    ELSE [st |-> "Ok", schema |-> Union(ss)]

RECURSIVE map_type_to_schema(_)
RECURSIVE map_union_members(_, _)
\* separated_list1(",", map_type_to_schema): the members left to right; the
\* first member that does not parse decides the outcome.
map_union_members(ts, acc) ==
    IF ts = << >> THEN [st |-> "Ok", schemas |-> acc]
    ELSE With(map_type_to_schema(Head(ts)), LAMBDA r :
             IF r.st = "Ok"
             THEN map_union_members(Tail(ts), Append(acc, r.schema))
             ELSE [st |-> r.st, schemas |-> acc])

\* map_type_to_schema: alt over array<T>, union{..}, the keywords and a bare
\* identifier (a Ref).  There is no map<T> alternative.  A union rejected by
\* UnionSchema::new panics (expect).
map_type_to_schema(t) ==
    CASE t.k = "array" ->
           With(map_type_to_schema(t.args[1]), LAMBDA r :
               IF r.st = "Ok" THEN [st |-> "Ok", schema |-> Array(r.schema)] ELSE r)
      [] t.k = "union" ->
           With(map_union_members(t.args, << >>), LAMBDA m :
               IF m.st # "Ok" \/ m.schemas = << >>
               THEN TypeErr(IF m.st = "Panic" THEN "Panic" ELSE "Err")
               ELSE With(UnionSchemaNew(m.schemas), LAMBDA u :
                        IF u.st = "Ok" THEN u ELSE TypeErr("Panic")))
      [] t.k = "keyword" -> [st |-> "Ok", schema |-> KeywordSchema(t.kw)]
      [] t.k = "ident" ->
           With(NameNew(t.id), LAMBDA n :
               IF var_name_token(t.id) /\ n.st = "Ok"
               THEN [st |-> "Ok", schema |-> Ref(n.name)]
               ELSE TypeErr("Err"))
      [] OTHER -> TypeErr("Err")

\* The gap before a type as map_type_to_schema reads it: `array` is a bare
\* tag, the other alternatives are space_or_comment_delimited.  What is left
\* of the gap must be empty for the type to be read.
type_lead(t, gap) == IF t.k = "array" THEN gap ELSE space_or_comment(gap)

\* The gap after a type: a keyword or an identifier is
\* space_or_comment_delimited, `>` of an array and `}` of a union are not.
type_trail(t, gap) ==
    IF t.k \in {"keyword", "ident"} THEN space_or_comment(gap) ELSE gap

\* parse_logical_type: the tag of @logicalType; an unknown tag is todo!().
parse_logical_type(tag) ==
    CASE tag = "timestamp-micros" -> [st |-> "Ok", schema |-> Prim("TimestampMicros")]
      [] tag = "time-micros" -> [st |-> "Ok", schema |-> Prim("TimeMicros")]
      [] tag = "duration" -> [st |-> "Ok", schema |-> Prim("Duration")]
      [] OTHER -> TypeErr("Panic")

RECURSIVE parse_based_on_schema(_)
\* parse_based_on_schema: building the default parser for a schema.  A union
\* builds the parser of its first variant at once, an array builds its element
\* parser only when a default is read; Duration is todo!(), the tags with no
\* arm are unimplemented!().
parse_based_on_schema(schema) ==
    CASE schema.tag = "Union" -> parse_based_on_schema(schema.kids[1])
      [] schema.tag = "Duration" -> "Panic"
      [] schema.tag \in {"Map", "Record", "Enum", "Fixed"} -> "Panic"
      [] OTHER -> "Ok"

(***************************************************************************)
(* Default values                                                          *)
(***************************************************************************)
\* apache_avro::types::Value and serde_json::Value: a kind, the decimal
\* numeral of a number, the elements of an array or a map.
AvroValue(kind, digits, items) == [kind |-> kind, digits |-> digits, items |-> items]
Value(kind, digits, items) == [kind |-> kind, digits |-> digits, items |-> items]

DefaultErr == [st |-> "Err", value |-> AvroValue("Null", << >>, << >>)]

\* i32::MAX and i64::MAX as decimal numerals.
I32_MAX == <<2, 1, 4, 7, 4, 8, 3, 6, 4, 7>>
I64_MAX == <<9, 2, 2, 3, 3, 7, 2, 0, 3, 6, 8, 5, 4, 7, 7, 5, 8, 0, 7>>

RECURSIVE numeral_le(_, _)
\* a <= b for two numerals of the same length.
numeral_le(a, b) ==
    IF a = << >> THEN TRUE
    ELSE IF Head(a) # Head(b) THEN Head(a) < Head(b)
    ELSE numeral_le(Tail(a), Tail(b))

\* acc * 10 + d on a numeral without leading zeros.
checked_mul_add(acc, d) == IF acc = <<0>> THEN <<d>> ELSE Append(acc, d)

\* The value does not fit the type whose largest value is max.
overflows(n, max) ==
    Len(n) > Len(max) \/ (Len(n) = Len(max) /\ ~numeral_le(n, max))

RECURSIVE from_str(_, _, _)
\* str::parse for a signed integer type on a digit sequence: the digits are
\* accumulated left to right, an overflow is an error.
from_str(ds, acc, max) ==
    IF ds = << >> THEN [st |-> "Ok", digits |-> acc]
    ELSE With(checked_mul_add(acc, Head(ds)), LAMBDA n :
             IF overflows(n, max) THEN [st |-> "Err", digits |-> acc]
             ELSE from_str(Tail(ds), n, max))

\* v.parse::<i32>() and v.parse::<i64>()
parse_i32(ds) == from_str(ds, <<0>>, I32_MAX)
parse_i64(ds) == from_str(ds, <<0>>, I64_MAX)

map_null(lit) ==
    IF lit.k = "null" THEN [st |-> "Ok", value |-> AvroValue("Null", << >>, << >>)]
    ELSE DefaultErr

map_bool(lit) ==
    IF lit.k \in {"true", "false"}
    THEN [st |-> "Ok", value |-> AvroValue("Boolean", << >>, <<lit.k>>)]
    ELSE DefaultErr

\* The digits are read as a 64-bit value.
map_int_wide(lit) ==
    IF lit.k # "digits" THEN DefaultErr
    ELSE With(parse_i64(lit.digits), LAMBDA r :
             IF r.st = "Ok"
             THEN [st |-> "Ok", value |-> AvroValue("Int", r.digits, << >>)]
             ELSE DefaultErr)

\* map_int: digit1, then parse::<i32>.  (On a number with a point digit1
\* stops at the point and the `;` that must follow is not there.)
map_int(lit) ==
    IF lit.k # "digits" THEN DefaultErr
    ELSE With(parse_i32(lit.digits), LAMBDA r :
             IF r.st = "Ok"
             THEN [st |-> "Ok", value |-> AvroValue("Int", r.digits, << >>)]
             ELSE DefaultErr)

\* map_long: digit1, then parse::<i64>.
map_long(lit) ==
    IF lit.k # "digits" THEN DefaultErr
    ELSE With(parse_i64(lit.digits), LAMBDA r :
             IF r.st = "Ok"
             THEN [st |-> "Ok", value |-> AvroValue("Long", r.digits, << >>)]
             ELSE DefaultErr)

\* map_float and map_double: digits, points and `e`, read as a float.
map_float(lit) ==
    IF lit.k \in {"digits", "float"}
    THEN [st |-> "Ok", value |-> AvroValue("Double", lit.digits, << >>)]
    ELSE DefaultErr
map_double(lit) ==
    IF lit.k \in {"digits", "float"}
    THEN [st |-> "Ok", value |-> AvroValue("Double", lit.digits, << >>)]
    ELSE DefaultErr

\* map_string, map_bytes, map_decimal: a quoted string.
map_string(lit) ==
    IF lit.k \in {"string", "uuid"}
    THEN [st |-> "Ok", value |-> AvroValue("String", << >>, << >>)]
    ELSE DefaultErr
map_bytes(lit) ==
    IF lit.k \in {"string", "uuid"}
    THEN [st |-> "Ok", value |-> AvroValue("Bytes", << >>, << >>)]
    ELSE DefaultErr
map_decimal(lit) ==
    IF lit.k \in {"string", "uuid"}
    THEN [st |-> "Ok", value |-> AvroValue("Decimal", << >>, << >>)]
    ELSE DefaultErr

\* map_uuid: a quoted string that Uuid::from_str accepts.
map_uuid(lit) ==
    IF lit.k = "uuid" THEN [st |-> "Ok", value |-> AvroValue("Uuid", << >>, << >>)]
    ELSE DefaultErr

\* parse_enum_default_symbol: parse_var_name, which also takes the words
\* null, true and false.
parse_enum_default_symbol(lit) ==
    IF lit.k \in {"ident", "null", "true", "false"}
    THEN [st |-> "Ok", value |-> AvroValue("String", << >>, << >>)]
    ELSE DefaultErr

\* The last variant of the union gives the default parser.
union_default_variant_last(schema) == schema.kids[Len(schema.kids)]

\* union_schema.variants().first()
union_default_variant(schema) == schema.kids[1]

\* Null is given a parser that takes every literal.
default_null_any(lit) == [st |-> "Ok", value |-> AvroValue("Null", << >>, << >>)]

\* The parser of the arm Schema::Null.
default_null(lit) == map_null(lit)

RECURSIVE default_parser(_, _)
RECURSIVE default_list(_, _, _)
\* separated_list0(",", parser of schema) and the closing bracket: every
\* item must parse, else the bracket is not where the list stopped.
default_list(schema, items, acc) ==
    IF items = << >> THEN [st |-> "Ok", values |-> acc]
    ELSE With(default_parser(schema, Head(items)), LAMBDA r :
             IF r.st # "Ok" THEN [st |-> "Err", values |-> acc]
             ELSE default_list(schema, Tail(items), Append(acc, r.value)))

\* The parser parse_based_on_schema returns for a schema, on a literal.
default_parser(schema, lit) ==
    CASE schema.tag = "Null" -> default_null(lit)
      [] schema.tag = "Boolean" -> map_bool(lit)
      [] schema.tag = "Int" -> map_int(lit)
      [] schema.tag = "Long" -> map_long(lit)
      [] schema.tag = "Float" -> map_float(lit)
      [] schema.tag = "Double" -> map_double(lit)
      [] schema.tag = "Bytes" -> map_bytes(lit)
      [] schema.tag = "String" -> map_string(lit)
      [] schema.tag = "Array" ->
           IF lit.k # "list" THEN DefaultErr
           ELSE With(default_list(schema.kids[1], lit.items, << >>), LAMBDA r :
                    IF r.st # "Ok" THEN DefaultErr
                    ELSE [st |-> "Ok", value |-> AvroValue("Array", << >>, r.values)])
      [] schema.tag = "Union" -> default_parser(union_default_variant(schema), lit)
      [] schema.tag = "Date" -> map_int(lit)
      [] schema.tag = "TimeMillis" -> map_int(lit)
      [] schema.tag = "TimestampMillis" -> map_long(lit)
      [] schema.tag = "Uuid" -> map_uuid(lit)
      [] schema.tag = "Decimal" -> map_decimal(lit)
      [] schema.tag = "TimestampMicros" -> map_long(lit)
      [] schema.tag = "TimeMicros" -> map_long(lit)
      [] schema.tag = "Ref" -> parse_enum_default_symbol(lit)
      [] OTHER -> DefaultErr

RECURSIVE try_into(_)
RECURSIVE try_into_items(_)
try_into_items(vs) ==
    IF vs = << >> THEN << >> ELSE <<try_into(Head(vs))>> \o try_into_items(Tail(vs))

\* value.try_into(): the serde_json::Value of an apache_avro Value.
try_into(v) ==
    CASE v.kind = "Null" -> Value("Null", << >>, << >>)
      [] v.kind = "Boolean" -> Value("Bool", << >>, v.items)
      [] v.kind \in {"Int", "Long", "Double"} -> Value("Number", v.digits, << >>)
      [] v.kind \in {"String", "Uuid"} -> Value("String", << >>, << >>)
      [] v.kind \in {"Bytes", "Decimal"} -> Value("Array", << >>, << >>)
      [] v.kind = "Array" -> Value("Array", << >>, try_into_items(v.items))
      [] v.kind = "Map" ->
           Value("Object", << >>,
                 [n \in 1..Len(v.items) |->
                     MapEntry(v.items[n].key, try_into(v.items[n].value))])

\* map_res(parser, |value| value.try_into())
default_value(schema, lit) ==
    With(default_parser(schema, lit), LAMBDA r :
        IF r.st = "Ok" THEN [st |-> "Ok", value |-> try_into(r.value)]
        ELSE [st |-> "Err", value |-> Value("Null", << >>, << >>)])

RECURSIVE default_trail(_, _)
\* The gap after a default: parse_enum_default_symbol is
\* space_or_comment_delimited, the other parsers stop at the literal's end.
default_trail(schema, gap) ==
    IF schema.tag = "Union" THEN default_trail(union_default_variant(schema), gap)
    ELSE IF schema.tag = "Ref" THEN space_or_comment(gap)
    ELSE gap

(***************************************************************************)
(* Field declarations                                                      *)
(***************************************************************************)
\* What the four field parsers return:
\* (schema, doc, order, aliases, varname, default).
FieldTuple(schema, doc, order, aliases, varname, default) ==
    [schema |-> schema, doc |-> doc, order |-> order, aliases |-> aliases,
     varname |-> varname, default |-> default]

\* `carry` is how many times space_or_comment_delimited closes after the
\* declaration's `;`: each may skip a comment of the gap that follows.
FieldErr(st) ==
    [st |-> st,
     out |-> FieldTuple(Prim("Null"), None, None, None, << >>, None),
     carry |-> 0]

\* The Option<String> of a string-valued annotation.
first_string(opt) == IF opt = None THEN None ELSE Some(opt[1][1])

\* The part parse_union and parse_field share after the schema is known: the
\* default parser is built, then permutation_opt over @order and @aliases, the
\* identifier, the default and the `;` are read.
field_tail(f, schema, doc, mid) ==
    IF parse_based_on_schema(schema) = "Panic" THEN FieldErr("Panic")
    ELSE With(permutation_opt(f.annotations, {"order", "aliases"}), LAMBDA n :
         With(IF f.default = None
              THEN [st |-> "Ok", value |-> Value("Null", << >>, << >>)]
              ELSE default_value(schema, f.default[1]), LAMBDA v :
             IF \/ space_or_comment(mid) # << >>
                \/ n < Len(f.annotations)
                \/ ~var_name_token(f.name)
                \/ v.st # "Ok"
                \/ space_or_comment(IF f.default = None
                                    THEN space_or_comment(f.tail)
                                    ELSE default_trail(schema, f.tail)) # << >>
             THEN FieldErr("Err")
             ELSE [st |-> "Ok",
                   out |-> FieldTuple(schema, doc,
                              first_string(annotation_value(f.annotations, n, "order")),
                              annotation_value(f.annotations, n, "aliases"),
                              f.name,
                              IF f.default = None THEN None ELSE Some(v.value)),
                   carry |-> 2]))

\* The keys of map defaults, in the order of their strings.
MapKeys == <<"a", "b">>

\* The entry of the first occurrence of the key is the one that is kept.
first_with_key(entries, key) ==
    entries[CHOOSE n \in 1..Len(entries) :
                /\ entries[n].key = key
                /\ \A m \in 1..(n - 1) : entries[m].key # key]

\* HashMap::insert in turn for each pair: the entry of a key is the one of
\* its last occurrence.
last_with_key(entries, key) ==
    entries[CHOOSE n \in 1..Len(entries) :
                /\ entries[n].key = key
                /\ \A m \in (n + 1)..Len(entries) : entries[m].key # key]

RECURSIVE from_iter(_, _)
\* HashMap::from_iter(v): one entry for each key that occurs.  The entries
\* are listed by key, which is the order of a serde_json Map.
from_iter(entries, keys) ==
    IF keys = << >> THEN << >>
    ELSE (IF \E n \in 1..Len(entries) : entries[n].key = Head(keys)
          THEN <<last_with_key(entries, Head(keys))>> ELSE << >>)
         \o from_iter(entries, Tail(keys))

\* The values of the pairs `"key": value`, each read by the parser of schema.
entry_values(entries) == [n \in 1..Len(entries) |-> entries[n].value]

\* The default of parse_array (`[v, ..]`) and of parse_map (`{"k": v, ..}`).
collection_default(f, schema, shape, kind) ==
    IF f.default = None THEN [st |-> "Ok", value |-> Value("Null", << >>, << >>)]
    ELSE IF f.default[1].k # shape
    THEN [st |-> "Err", value |-> Value("Null", << >>, << >>)]
    ELSE IF kind = "Map"
    THEN With(default_list(schema, entry_values(f.default[1].items), << >>), LAMBDA r :
             IF r.st # "Ok" THEN [st |-> "Err", value |-> Value("Null", << >>, << >>)]
             ELSE [st |-> "Ok",
                   value |-> try_into(AvroValue("Map", << >>,
                       from_iter([n \in 1..Len(r.values) |->
                                     MapEntry(f.default[1].items[n].key, r.values[n])],
                                 MapKeys)))])
    ELSE With(default_list(schema, f.default[1].items, << >>), LAMBDA r :
             IF r.st # "Ok" THEN [st |-> "Err", value |-> Value("Null", << >>, << >>)]
             ELSE [st |-> "Ok", value |-> try_into(AvroValue(kind, << >>, r.values))])

\* The part parse_array and parse_map share: the identifier is
\* space_delimited and the `;` a bare tag, so no comment may stand before them.
collection_tail(f, schema, doc, shape, kind, result) ==
    IF parse_based_on_schema(schema) = "Panic" THEN FieldErr("Panic")
    ELSE With(permutation_opt(f.annotations, {"order", "aliases"}), LAMBDA n :
         With(collection_default(f, schema, shape, kind), LAMBDA v :
             IF \/ (IF f.annotations = << >> THEN f.mid
                    ELSE space_or_comment(f.mid)) # << >>
                \/ n < Len(f.annotations)
                \/ ~var_name_token(f.name)
                \/ v.st # "Ok"
                \/ f.tail # << >>
             THEN FieldErr("Err")
             ELSE [st |-> "Ok",
                   out |-> FieldTuple(result, doc,
                              first_string(annotation_value(f.annotations, n, "order")),
                              annotation_value(f.annotations, n, "aliases"),
                              f.name,
                              IF f.default = None THEN None ELSE Some(v.value)),
                   carry |-> 1]))

\* parse_array: `array<T> name [= [..]];`
parse_array(f) ==
    With(opt_parse_doc(f.lead), LAMBDA d :
        IF f.logical # None \/ f.type.k # "array" \/ space_or_comment(d.rest) # << >>
        THEN FieldErr("Err")
        ELSE With(map_type_to_schema(f.type.args[1]), LAMBDA r :
                 IF r.st # "Ok" THEN FieldErr(r.st)
                 ELSE collection_tail(f, r.schema, d.doc, "list", "Array",
                                      Array(r.schema))))

\* parse_map: `map<T> name [= {..}];`
parse_map(f) ==
    With(opt_parse_doc(f.lead), LAMBDA d :
        IF f.logical # None \/ f.type.k # "map" \/ space_or_comment(d.rest) # << >>
        THEN FieldErr("Err")
        ELSE With(map_type_to_schema(f.type.args[1]), LAMBDA r :
                 IF r.st # "Ok" THEN FieldErr(r.st)
                 ELSE collection_tail(f, r.schema, d.doc, "map", "Map",
                                      Map(r.schema))))

\* parse_union: `T name [= default];` for any T that map_type_to_schema maps.
parse_union(f) ==
    With(opt_parse_doc(f.lead), LAMBDA d :
        IF f.logical # None \/ type_lead(f.type, d.rest) # << >>
        THEN FieldErr("Err")
        ELSE With(map_type_to_schema(f.type), LAMBDA r :
                 IF r.st # "Ok" THEN FieldErr(r.st)
                 ELSE field_tail(f, r.schema, d.doc, type_trail(f.type, f.mid))))

\* parse_field: `[@logicalType("tag")] T name [= default];`, the logical
\* schema replaces T's.
parse_field(f) ==
    With(opt_parse_doc(f.lead), LAMBDA d :
        IF f.logical = None THEN
            IF type_lead(f.type, d.rest) # << >> THEN FieldErr("Err")
            ELSE With(map_type_to_schema(f.type), LAMBDA r :
                     IF r.st # "Ok" THEN FieldErr(r.st)
                     ELSE field_tail(f, r.schema, d.doc, type_trail(f.type, f.mid)))
        ELSE IF space_or_comment(d.rest) # << >> THEN FieldErr("Err")
        ELSE With(parse_logical_type(f.logical[1]), LAMBDA l :
                 IF l.st # "Ok" THEN FieldErr(l.st)
                 ELSE With(map_type_to_schema(f.type), LAMBDA r :
                          IF r.st # "Ok" THEN FieldErr(r.st)
                          ELSE field_tail(f, l.schema, d.doc,
                                          type_trail(f.type, f.mid)))))

\* alt((parse_array, parse_map, parse_union, parse_field)): the first
\* alternative that does not return Err::Error decides.
field_alternatives(f) ==
    With(parse_array(f), LAMBDA a :
        IF a.st # "Err" THEN a
        ELSE With(parse_map(f), LAMBDA m :
                 IF m.st # "Err" THEN m
                 ELSE With(parse_union(f), LAMBDA u :
                          IF u.st # "Err" THEN u ELSE parse_field(f))))

\* order.unwrap_or(RecordFieldOrder::Ascending)
unwrap_or(opt, default) == IF opt = None THEN default ELSE opt[1]

\* parse_record_field: space_or_comment_delimited skips one comment of the
\* gap before the declaration, then the alternatives; the tuple becomes a
\* RecordField with position 0.
parse_record_field(f) ==
    With(field_alternatives([f EXCEPT !.lead = space_or_comment(f.lead)]), LAMBDA r :
        [st |-> r.st,
         field |-> RecordField(r.out.varname, r.out.doc, r.out.default,
                               r.out.schema, unwrap_or(r.out.order, "ascending"),
                               r.out.aliases, 0),
         carry |-> r.carry])

(***************************************************************************)
(* Named-type declarations                                                 *)
(***************************************************************************)
DeclErr(st, why) == [st |-> st, why |-> why, schema |-> Prim("Null")]

\* many0 and separated_list0: a list with no element is a result.
many0_fails(acc) == FALSE

\* many1 and separated_list1: when the element parser fails with nothing
\* accumulated, its error is the error of the list.
many1_fails(acc) == acc = << >>

\* used_field_names.contains(&name)
used_field_names_contains(used, name) == \E k \in 1..Len(used) : used[k] = name

\* The push is forgotten: no name is ever recorded as used.
used_field_names_push_skipped(used, name) == used

\* used_field_names.push(name)
used_field_names_push(used, name) == Append(used, name)

\* What follows a parsed field: the wrappers that close after its `;` skip
\* comments of the gap before the next field.
after_field(items, carry) ==
    IF items = << >> THEN items
    ELSE <<[Head(items) EXCEPT !.lead = space_or_comment_times(@, carry)]>>
         \o Tail(items)

RECURSIVE record_fields(_, _, _)
\* many1(map_res(parse_record_field, ..)) in parse_record: fields are taken
\* while they parse and their name is new; many1 stops, without failing, at the
\* first element that returns an error (the closing brace included), and `rest`
\* is what it leaves unread.
record_fields(items, acc, used) ==
    IF items = << >> THEN [st |-> "Ok", why |-> "", fields |-> acc, rest |-> items]
    ELSE With(parse_record_field(Head(items)), LAMBDA r :
             IF r.st = "Panic"
             THEN [st |-> "Panic", why |-> "", fields |-> acc, rest |-> items]
             ELSE IF r.st # "Ok"
             THEN [st |-> "Ok", why |-> "syntax", fields |-> acc, rest |-> items]
             ELSE IF used_field_names_contains(used, r.field.name)
             THEN [st |-> "Ok", why |-> "dup_field", fields |-> acc, rest |-> items]
             ELSE record_fields(after_field(Tail(items), r.carry),
                                Append(acc, r.field),
                                used_field_names_push(used, r.field.name)))

\* parse_record: the doc comment, permutation_opt over @aliases and
\* @namespace, the name, the fields (at least one), the closing brace, then
\* Name::new(name).unwrap() and the record's own @namespace.
parse_record(d) ==
    With(opt_parse_doc(d.lead), LAMBDA doc :
    With(permutation_opt(d.annotations, {"aliases", "namespace"}), LAMBDA n :
        IF \/ d.kind # "record"
           \/ space_or_comment(doc.rest) # << >>
           \/ n < Len(d.annotations)
           \/ ~var_name_token(d.name)
        THEN DeclErr("Err", "syntax")
        ELSE With(record_fields(d.fields, << >>, << >>), LAMBDA b :
                 IF b.st = "Panic" THEN DeclErr("Panic", "")
                 ELSE IF many1_fails(b.fields)
                 THEN DeclErr("Err", IF b.why = "" THEN "empty" ELSE b.why)
                 ELSE IF b.rest # << >> THEN DeclErr("Err", b.why)
                 ELSE IF NameNew(d.name).st # "Ok" THEN DeclErr("Panic", "")
                 ELSE [st |-> "Ok", why |-> "",
                       schema |-> Record(
                           Name(d.name,
                                first_string(annotation_value(d.annotations, n, "namespace"))),
                           annotation_value(d.annotations, n, "aliases"),
                           doc.doc, b.fields)])))

\* parse_enum: the doc comment, the name, a non-empty symbol list, then
\* Name::new(name).unwrap().
parse_enum(d) ==
    With(opt_parse_doc(d.lead), LAMBDA doc :
    With(permutation_opt(d.annotations, {"aliases"}), LAMBDA n :
        IF \/ d.kind # "enum"
           \/ doc.rest # << >>
           \/ n < Len(d.annotations)
           \/ ~var_name_token(d.name)
        THEN DeclErr("Err", "syntax")
        ELSE IF many1_fails(d.symbols) THEN DeclErr("Err", "empty")
        ELSE IF \E k \in 1..Len(d.symbols) : ~var_name_token(d.symbols[k])
        THEN DeclErr("Err", "syntax")
        ELSE IF NameNew(d.name).st # "Ok" THEN DeclErr("Panic", "")
        ELSE [st |-> "Ok", why |-> "",
              schema |-> Enum(Name(d.name, None),
                              annotation_value(d.annotations, n, "aliases"),
                              doc.doc, d.symbols)]))

\* parse_fixed: the doc comment and the keyword; after the keyword everything
\* is under cut, so a missing name or size is Err::Failure; `name.into()` is
\* Name::new(name).unwrap().
parse_fixed(d) ==
    With(opt_parse_doc(d.lead), LAMBDA doc :
    With(permutation_opt(d.annotations, {"aliases"}), LAMBDA n :
        IF d.kind # "fixed" \/ doc.rest # << >> THEN DeclErr("Err", "syntax")
        ELSE IF n < Len(d.annotations) \/ ~var_name_token(d.name) \/ d.size < 0
        THEN DeclErr("Failure", "syntax")
        ELSE IF NameNew(d.name).st # "Ok" THEN DeclErr("Panic", "")
        ELSE [st |-> "Ok", why |-> "",
              schema |-> Fixed(Name(d.name, None),
                               annotation_value(d.annotations, n, "aliases"),
                               doc.doc, d.size)]))

\* alt((parse_record, parse_enum, parse_fixed)): the alternative of the item's
\* keyword decides, the others return Err::Error on it.
parse_declaration(d) ==
    IF d.kind = "record" THEN parse_record(d)
    ELSE IF d.kind = "enum" THEN parse_enum(d)
    ELSE parse_fixed(d)

(***************************************************************************)
(* Resolution passes                                                       *)
(***************************************************************************)
\* The copy is walked once more: the Refs of its fields are replaced too.
found_schema_walked(table, fqn) ==
    IF table[fqn].tag # "Record" THEN table[fqn]
    ELSE [table[fqn] EXCEPT !.fields =
            [k \in 1..Len(table[fqn].fields) |->
                IF /\ table[fqn].fields[k].schema.tag = "Ref"
                   /\ table[fqn].fields[k].schema.name \in DOMAIN table
                THEN [table[fqn].fields[k] EXCEPT
                         !.schema = table[table[fqn].fields[k].schema.name]]
                ELSE table[fqn].fields[k]]]

\* names_ref.get(&fully_qualified_name), cloned: the entry as it stands in
\* the table.
found_schema(table, fqn) == table[fqn]

\* The fields are walked under the namespace the record itself is walked under.
record_namespace_enclosing(name, enclosing_namespace) == enclosing_namespace

\* `let record_namespace = fully_qualified_name.namespace`: the namespace the
\* fields of a record are walked under.
record_namespace(name, enclosing_namespace) ==
    fully_qualified_name(name, enclosing_namespace).namespace

RECURSIVE schema_solver(_, _, _)
RECURSIVE solve_fields(_, _, _, _)
\* The `for field in fields` loop of schema_solver: a Swap replaces the field's
\* schema; the first error leaves the loop (`?`) with the later fields untouched.
solve_fields(fields, k, names_ref, fields_namespace) ==
    IF k > Len(fields) THEN [st |-> "Ok", fields |-> fields]
    ELSE With(schema_solver(fields[k].schema, names_ref, fields_namespace), LAMBDA res :
         With([fields EXCEPT ![k].schema =
                  IF res.op = "Swap" THEN res.swap ELSE res.self], LAMBDA upd :
             IF res.st = "Err" THEN [st |-> "Err", fields |-> upd]
             ELSE solve_fields(upd, k + 1, names_ref, fields_namespace)))

\* schema_solver: `self` is the schema after the call (it is mutated in place),
\* `op` the returned Operation and `swap` the schema a Swap carries.
schema_solver(schema, names_ref, enclosing_namespace) ==
    CASE schema.tag = "Record" ->
           With(solve_fields(schema.fields, 1, names_ref,
                             record_namespace(schema.name, enclosing_namespace)),
                LAMBDA r :
               [st |-> r.st, op |-> "NoOp", self |-> [schema EXCEPT !.fields = r.fields],
                swap |-> schema])
      [] schema.tag = "Ref" ->
           With(fully_qualified_name(schema.name, enclosing_namespace), LAMBDA fqn :
               IF fqn \in DOMAIN names_ref
               THEN [st |-> "Ok", op |-> "Swap", self |-> schema,
                     swap |-> found_schema(names_ref, fqn)]
               ELSE [st |-> "Err", op |-> "NoOp", self |-> schema, swap |-> schema])
      [] OTHER -> [st |-> "Ok", op |-> "NoOp", self |-> schema, swap |-> schema]

\* Every named schema is given the enclosing namespace, not records only.
namespace_solver_every_name(schema, enclosing_namespace) ==
    IF schema.tag \in {"Record", "Enum", "Fixed"}
    THEN [schema EXCEPT !.name.namespace = enclosing_namespace]
    ELSE schema

\* The records inlined into the fields are given the namespace too.
namespace_solver_deep(schema, enclosing_namespace) ==
    IF schema.tag = "Record"
    THEN [schema EXCEPT
            !.name.namespace = enclosing_namespace,
            !.fields = [k \in 1..Len(schema.fields) |->
                IF schema.fields[k].schema.tag = "Record"
                THEN [schema.fields[k] EXCEPT
                         !.schema.name.namespace = enclosing_namespace]
                ELSE schema.fields[k]]]
    ELSE schema

\* namespace_solver: a record's namespace becomes the enclosing one.
namespace_solver(schema, enclosing_namespace) ==
    IF schema.tag = "Record"
    THEN [schema EXCEPT !.name.namespace = enclosing_namespace]
    ELSE schema

(***************************************************************************)
(* The symbol table                                                        *)
(***************************************************************************)
\* names_ref.contains_key(&name)
names_ref_contains_key(table, name) == name \in DOMAIN table

\* The table is given the declaration as resolved against the table so far,
\* not the declaration as parsed.
names_ref_insert_resolved(table, name, schema) ==
    [n \in DOMAIN table \cup {name} |->
        IF n = name THEN schema_solver(schema, table, None).self ELSE table[n]]

\* The key is the simple name: the namespace of the declaration is dropped.
names_ref_insert_simple_name(table, name, schema) ==
    [n \in DOMAIN table \cup {Name(name.name, None)} |->
        IF n = Name(name.name, None) THEN schema ELSE table[n]]

\* names_ref.insert(name, schema.clone())
names_ref_insert(table, name, schema) ==
    [n \in DOMAIN table \cup {name} |-> IF n = name THEN schema ELSE table[n]]

\* The name check is made for records only.
register_declaration_records_only(r, table) ==
    IF r.st # "Ok" THEN r
    ELSE IF r.schema.tag = "Record" /\ names_ref_contains_key(table, r.schema.name)
    THEN DeclErr("Err", "dup_name")
    ELSE r

\* The name is not looked up: the insertion replaces the entry of that name.
register_declaration_unchecked(r, table) == r

\* The map_res closure of parse_protocol on a parsed declaration: a name that
\* is already a key of the table is an error, else the declaration is recorded.
register_declaration(r, table) ==
    IF r.st # "Ok" THEN r
    ELSE IF names_ref_contains_key(table, r.schema.name)
    THEN DeclErr("Err", "dup_name")
    ELSE r

(***************************************************************************)
(* parse and parse_protocol as a state machine                             *)
(***************************************************************************)
VARIABLES
    input,      \* the protocol text: [namespace, body]
    pos,        \* how many declarations of the body have been read
    names_ref,  \* HashMap<Name, Schema>
    schemas,    \* the list many1 accumulates, then `schemas` of parse
    namespace,  \* the protocol namespace parse_protocol returned
    parsed,     \* the list as parse_protocol returned it
    outcomes,   \* per declaration read: what the element parser returned
    pc,         \* "body", "close", "ret", "solve", "done"
    i,          \* the position of the `for schema in schemas` loop
    presult,    \* what parse_protocol returned: "none", "Ok", "Err"
    result,     \* what parse returned: "none", "Ok", "Err", "Panic"
    tail,       \* the unread text parse_protocol returned with Ok, if it did
    remainder   \* the remainder parse returned with Ok, if it did

vars == <<input, pos, names_ref, schemas, namespace, parsed, outcomes, pc, i,
          presult, result, tail, remainder>>

\* The text after the closing brace of the protocol.
trailer(text) == IF "trailer" \in DOMAIN text THEN text.trailer ELSE << >>

\* The remainder parse returns is the text parse_protocol left unread.
parse_remainder_tail(unread) == unread

\* Ok(("", schemas)): the remainder parse returns.
parse_remainder(unread) == << >>

\* The declarations of the body not read yet.
rest == SubSeq(input.body, pos + 1, Len(input.body))

\* The closing brace is not checked: whatever many1 left unread is accepted.
closing_brace_unchecked(unread) == TRUE

\* tag("}") after many1: it matches when no declaration is left unread.
closing_brace(unread) == unread = << >>

\* How many times space_or_comment_delimited closes after a declaration:
\* the wrapper of the many1 element, and for an enum the one of its `}` too.
declaration_carry(d) == IF d.kind = "enum" THEN 2 ELSE 1

\* The declaration many1 reads next, as alt sees it: of the gap before it the
\* wrappers closing after the declaration before it have skipped their
\* comments, and the wrapper of the element skips one more.
at_declaration ==
    [Head(rest) EXCEPT !.lead =
        space_or_comment(
            IF pos = 0 THEN @
            ELSE space_or_comment_times(@, declaration_carry(input.body[pos])))]

\* One element of many1 in parse_protocol: the declaration parser and the
\* map_res closure on the next declaration (the closing brace is no declaration).
next_declaration ==
    IF rest = << >> THEN {DeclErr("Err", "")}
    ELSE {register_declaration(parse_declaration(at_declaration), names_ref)}

\* many1 takes a declaration: it is inserted in the table and appended.
ParseProtocolAccept ==
    /\ pc = "body"
    /\ \E r \in next_declaration :
        /\ r.st = "Ok"
        /\ names_ref' = names_ref_insert(names_ref, r.schema.name, r.schema)
        /\ schemas' = Append(schemas, r.schema)
        /\ outcomes' = Append(outcomes, [st |-> "Ok", why |-> ""])
    /\ pos' = pos + 1
    /\ UNCHANGED <<input, namespace, parsed, pc, i, presult, result>>
    /\ UNCHANGED <<tail, remainder>>

\* many1 ends: the element parser returned an error (on a declaration, or on
\* the closing brace).  Err::Failure, or Err::Error with nothing accumulated,
\* is the error of parse_protocol; otherwise many1 returns what it has.
ParseProtocolStop ==
    /\ pc = "body"
    /\ \E r \in next_declaration :
        /\ r.st \in {"Err", "Failure"}
        /\ outcomes' = IF rest = << >> THEN outcomes
                       ELSE Append(outcomes, [st |-> r.st, why |-> r.why])
        /\ IF many1_fails(schemas) \/ r.st = "Failure"
           THEN pc' = "ret" /\ presult' = "Err"
           ELSE pc' = "close" /\ presult' = presult
    /\ UNCHANGED <<input, pos, names_ref, schemas, namespace, parsed, i, result>>
    /\ UNCHANGED <<tail, remainder>>

\* A declaration panics (unwrap, expect, todo!): the call never returns.
ParseProtocolPanic ==
    /\ pc = "body"
    /\ \E r \in next_declaration : r.st = "Panic"
    /\ outcomes' = Append(outcomes, [st |-> "Panic", why |-> ""])
    /\ pc' = "done"
    /\ result' = "Panic"
    /\ UNCHANGED <<input, pos, names_ref, schemas, namespace, parsed, i, presult>>
    /\ UNCHANGED <<tail, remainder>>

\* The closing brace of the body, and the return of parse_protocol.
CloseBody ==
    /\ pc = "close"
    /\ IF closing_brace(rest)
       THEN /\ presult' = "Ok"
            /\ parsed' = schemas
            /\ namespace' = input.namespace
            /\ tail' = Some(trailer(input))
       ELSE /\ presult' = "Err"
            /\ UNCHANGED <<parsed, namespace, tail>>
    /\ pc' = "ret"
    /\ UNCHANGED <<input, pos, names_ref, schemas, outcomes, i, result, remainder>>

\* parse after parse_protocol: `?` returns its error, else the loop starts.
ParseAfterProtocol ==
    /\ pc = "ret"
    /\ IF presult = "Err"
       THEN pc' = "done" /\ result' = "Err" /\ i' = i
       ELSE pc' = "solve" /\ result' = result /\ i' = 1
    /\ UNCHANGED <<input, pos, names_ref, schemas, namespace, parsed, outcomes,
                   presult>>
    /\ UNCHANGED <<tail, remainder>>

\* One turn of the loop of parse: `let _ = schema_solver(schema, .., &None)`,
\* whose result is dropped, then namespace_solver(schema, &namespace).
SolveSchema ==
    /\ pc = "solve"
    /\ i <= Len(schemas)
    /\ schemas' = [schemas EXCEPT ![i] =
                      namespace_solver(schema_solver(schemas[i], names_ref, None).self,
                                       namespace)]
    /\ i' = i + 1
    /\ UNCHANGED <<input, pos, names_ref, namespace, parsed, outcomes, pc,
                   presult, result>>
    /\ UNCHANGED <<tail, remainder>>

\* Ok(("", schemas))
ParseReturn ==
    /\ pc = "solve"
    /\ i > Len(schemas)
    /\ pc' = "done"
    /\ result' = "Ok"
    /\ remainder' = Some(parse_remainder(tail[1]))
    /\ UNCHANGED <<input, pos, names_ref, schemas, namespace, parsed, outcomes,
                   i, presult, tail>>

\* import_solver after parse_protocol (Import::Idl): the error is mapped and
\* returned by `?`, else the list is returned; the table is the caller's.
ImportReturn ==
    /\ pc = "ret"
    /\ pc' = "done"
    /\ result' = IF presult = "Err" THEN "Err" ELSE "Ok"
    /\ UNCHANGED <<input, pos, names_ref, schemas, namespace, parsed, outcomes,
                   i, presult, tail, remainder>>

\* import_solver on an IDL file: parse_protocol, then the return.
NextImport ==
    \/ ParseProtocolAccept
    \/ ParseProtocolStop
    \/ ParseProtocolPanic
    \/ CloseBody
    \/ ImportReturn

Next ==
    \/ ParseProtocolAccept
    \/ ParseProtocolStop
    \/ ParseProtocolPanic
    \/ CloseBody
    \/ ParseAfterProtocol
    \/ SolveSchema
    \/ ParseReturn

(***************************************************************************)
(* Inputs                                                                  *)
(***************************************************************************)
\* Protocols with a namespace of nss and at most MaxDecls declarations of decls.
Protocols(nss, decls) ==
    {[namespace |-> ns, body |-> b] :
        ns \in nss, b \in UNION {[1..n -> decls] : n \in 0..MaxDecls}}

\* The state at the call of parse_protocol on a text of ps with a table of
\* tables.
InitWith(ps, tables) ==
    /\ input \in ps
    /\ pos = 0
    /\ names_ref \in tables
    /\ schemas = << >>
    /\ namespace = None
    /\ parsed = << >>
    /\ outcomes = << >>
    /\ pc = "body"
    /\ i = 0
    /\ presult = "none"
    /\ result = "none"
    /\ tail = None
    /\ remainder = None

\* The state at the call of parse on a text of ps: `HashMap::new()`.
InitOn(ps) == InitWith(ps, {<< >>})

TypeNames == {<<"A">>, <<"B">>, <<"C">>}
F(type, name) == FieldItem(None, type, name)
string_x == F(TKeyword("string"), <<"x">>)

\* Records that refer to each other: `record n { t x; }` for n in A, B and t
\* among string and the names, `record C { string x; }`, record A with an
\* array, a map or a union of B, with a field of a type declared nowhere (D)
\* before a field of type B, and with a namespace of its own; an enum as the
\* target of a reference; a declaration that panics and one that is an error.
ResolveDecls ==
    {RecordItem(n, None, <<F(t, <<"x">>)>>) :
        n \in {<<"A">>, <<"B">>},
        t \in {TKeyword("string")} \cup {TIdent(m) : m \in TypeNames}}
    \cup {RecordItem(<<"A">>, None, <<F(t, <<"x">>)>>) :
            t \in {TArray(TIdent(<<"B">>)), TMap(TIdent(<<"B">>)),
                   TUnion(<<TKeyword("null"), TIdent(<<"B">>)>>),
                   TUnion(<<TKeyword("string"), TKeyword("string")>>)}}
    \cup {RecordItem(<<"C">>, None, <<string_x>>),
          RecordItem(<<"A">>, None, <<F(TIdent(<<"D">>), <<"x">>), F(TIdent(<<"B">>), <<"y">>)>>),
          RecordItem(<<"A">>, Some("a"), <<F(TIdent(<<"B">>), <<"x">>)>>),
          RecordItem(<<"B">>, Some("a"), <<string_x>>),
          EnumItem(<<"B">>, <<(<<"S">>)>>),
          EnumItem(<<"C">>, << >>)}

\* Declarations whose names collide or not: records A and B with no namespace
\* of their own, with an empty one and with "a", record A with "b", an enum and
\* a fixed named A, records with repeated and with distinct field names,
\* declarations that panic (a union of two ints, a duration field, a name
\* Name::new rejects) and declarations that do not parse.
NameDecls ==
    {RecordItem(n, ns, <<string_x>>) :
        n \in {<<"A">>, <<"B">>}, ns \in {None, Some(""), Some("a")}}
    \cup {RecordItem(<<"A">>, Some("b"), <<string_x>>),
          EnumItem(<<"A">>, <<(<<"S">>)>>),
          FixedItem(<<"A">>, 16),
          RecordItem(<<"B">>, None, <<string_x, F(TKeyword("int"), <<"x">>)>>),
          RecordItem(<<"B">>, None, <<string_x, F(TIdent(<<"A">>), <<"y">>)>>),
          RecordItem(<<"B">>, None, <<F(TUnion(<<TKeyword("int"), TKeyword("int")>>), <<"x">>)>>),
          RecordItem(<<"B">>, None, <<FieldItem(Some("duration"), TKeyword("int"), <<"x">>)>>),
          RecordItem(<<"A", "e_acute">>, None, <<string_x>>),
          RecordItem(<<"B">>, None, << >>),
          EnumItem(<<"B">>, << >>),
          FixedItem(<<"B">>, -1)}

Init == InitOn(Protocols({None}, ResolveDecls))
Spec == Init /\ [][Next]_vars

\* Records that refer to themselves and to each other in a cycle:
\* `record n { t x; }` for n in A, B and t among string, A, B and C (declared
\* nowhere), and a declaration that panics.
CycleDecls ==
    {RecordItem(n, None, <<F(t, <<"x">>)>>) :
        n \in {<<"A">>, <<"B">>},
        t \in {TKeyword("string")} \cup {TIdent(m) : m \in TypeNames}}
    \cup {RecordItem(<<"C">>, None,
                     <<F(TUnion(<<TKeyword("int"), TKeyword("int")>>), <<"x">>)>>)}

\* The loop of parse runs on: a turn that can be taken is taken, and so is
\* the return that follows the last turn.
InitCycles == InitOn(Protocols({None}, CycleDecls))
SpecCycles ==
    InitCycles /\ [][Next]_vars /\ WF_vars(SolveSchema) /\ WF_vars(ParseReturn)

\* References across namespaces: `record A { B x; }` with no namespace of its
\* own, with an empty one and with "a"; the targets named B: a record with no
\* namespace, with an empty one, with "a" and with "b", an enum and a fixed;
\* and a declaration that panics.
ScopeDecls ==
    {RecordItem(<<"A">>, ns, <<F(TIdent(<<"B">>), <<"x">>)>>) :
        ns \in {None, Some(""), Some("a")}}
    \cup {RecordItem(<<"B">>, ns, <<string_x>>) :
            ns \in {None, Some(""), Some("a"), Some("b")}}
    \cup {EnumItem(<<"B">>, <<(<<"S">>)>>),
          FixedItem(<<"B">>, 16),
          RecordItem(<<"C">>, None,
                     <<F(TUnion(<<TKeyword("int"), TKeyword("int")>>), <<"x">>)>>)}

InitScopes == InitOn(Protocols({None, Some("a")}, ScopeDecls))
SpecScopes == InitScopes /\ [][Next]_vars

\* Longest text after the closing brace of the protocol.
MaxTrailer == 2

\* Texts after the closing brace: blanks, a stray brace, a stray word.
Trailers == UNION {[1..m -> {" ", "}", "x"}] : m \in 0..MaxTrailer}

\* Declarations of the protocols followed by a trailer: a record, a record
\* that refers to it, an enum, a declaration that panics and one that is an
\* error.
TrailDecls ==
    {RecordItem(<<"A">>, None, <<string_x>>),
     RecordItem(<<"B">>, None, <<F(TIdent(<<"A">>), <<"x">>)>>),
     EnumItem(<<"C">>, <<(<<"S">>)>>),
     RecordItem(<<"C">>, None,
                <<F(TUnion(<<TKeyword("int"), TKeyword("int")>>), <<"x">>)>>),
     EnumItem(<<"B">>, << >>)}

\* A protocol of ps followed by a trailer.
WithTrailer(ps) ==
    {[namespace |-> p.namespace, body |-> p.body, trailer |-> t] :
        p \in ps, t \in Trailers}

InitTrail == InitOn(WithTrailer(Protocols({None}, TrailDecls)))
SpecTrail == InitTrail /\ [][Next]_vars

\* Declarations of an imported protocol: records A and B, a second record A
\* with another field, an enum named A, a fixed named B, a declaration that
\* panics and one that is an error.
ImportDecls ==
    {RecordItem(<<"A">>, None, <<string_x>>),
     RecordItem(<<"B">>, None, <<string_x>>),
     RecordItem(<<"A">>, None, <<F(TKeyword("int"), <<"y">>)>>),
     EnumItem(<<"A">>, <<(<<"S">>)>>),
     FixedItem(<<"B">>, 16),
     RecordItem(<<"C">>, None,
                <<F(TUnion(<<TKeyword("int"), TKeyword("int")>>), <<"x">>)>>),
     EnumItem(<<"C">>, << >>)}

\* The table of a declaration already registered by the caller.
TableOf(d) ==
    names_ref_insert(<< >>, parse_declaration(d).schema.name,
                     parse_declaration(d).schema)

\* The tables import_solver is called with: an empty one, and one that
\* holds a fixed named A or a record named B.
GivenTables ==
    {<< >>, TableOf(FixedItem(<<"A">>, 4)),
     TableOf(RecordItem(<<"B">>, None, <<F(TKeyword("long"), <<"y">>)>>))}

InitImport == InitWith(Protocols({None}, ImportDecls), GivenTables)
SpecImport == InitImport /\ [][NextImport]_vars

InitNames == InitOn(Protocols({None, Some("a")}, NameDecls))
SpecNames == InitNames /\ [][Next]_vars

\* Longest run of comments in one gap of the text.
MaxComments == 3

\* Longest identifier spelled out character by character.
MaxNameLen == 3

\* Longest map default.
MaxEntries == 2

\* All sequences over S of length at most n.
SeqsUpTo(S, n) == UNION {[1..m -> S] : m \in 0..n}

\* Gaps: runs of line, block and doc comments; runs of block comments.
Gaps == SeqsUpTo({Comment("line"), Comment("block"),
                  DocComment(<<" ", "d", " ">>)}, MaxComments)
CommentRuns == SeqsUpTo({Comment("block")}, MaxComments)

\* The literals a default is drawn from.
Digits(ds) == Literal("digits", ds, << >>)
Word(k) == Literal(k, << >>, << >>)
Numerals ==
    {<<0>>, <<0, 0, 7>>, I32_MAX, <<0>> \o I32_MAX,
     <<2, 1, 4, 7, 4, 8, 3, 6, 4, 8>>, I64_MAX, <<0>> \o I64_MAX,
     <<9, 2, 2, 3, 3, 7, 2, 0, 3, 6, 8, 5, 4, 7, 7, 5, 8, 0, 8>>}
Literals ==
    {Digits(ds) : ds \in Numerals}
    \cup {Word(k) : k \in {"null", "true", "false", "float", "string", "uuid", "ident"}}
    \cup {Literal("list", << >>, items) :
            items \in {<< >>, <<Digits(<<0, 0, 7>>)>>, <<Word("string")>>,
                       <<Digits(<<0>>), Word("true")>>}}
    \cup {Literal("map", << >>, entries) :
            entries \in {<< >>, <<MapEntry("a", Word("string"))>>,
                         <<MapEntry("a", Digits(<<0>>)), MapEntry("b", Word("true"))>>}
                        \cup SeqsUpTo({MapEntry(key, Digits(ds)) :
                                          key \in {"a", "b"},
                                          ds \in {<<0>>, <<0, 0, 7>>}}, MaxEntries)}

\* The types a field with a default is declared with.
Keywords ==
    {"null", "boolean", "string", "int", "double", "float", "long", "bytes",
     "time_ms", "timestamp_ms", "date", "uuid", "decimal"}
DefaultTypes ==
    {TKeyword(kw) : kw \in Keywords}
    \cup {TArray(TKeyword("int")), TArray(TKeyword("string")),
          TMap(TKeyword("int")), TIdent(<<"B">>),
          TUnion(<<TKeyword("null"), TKeyword("string")>>),
          TUnion(<<TKeyword("int"), TKeyword("string")>>),
          TUnion(<<TKeyword("string"), TKeyword("int")>>),
          TUnion(<<TArray(TKeyword("int")), TKeyword("null")>>)}

\* `type x [= literal];` and `@logicalType("tag") type x [= literal];`
DefaultFields ==
    {FieldText(<< >>, None, t, << >>, << >>, <<"x">>, d, << >>) :
        t \in DefaultTypes, d \in {None} \cup {Some(l) : l \in Literals}}
    \cup {FieldText(<< >>, Some(tag), TKeyword(kw), << >>, << >>, <<"x">>, d, << >>) :
            tag \in {"timestamp-micros", "time-micros", "duration", "decimal"},
            kw \in {"long", "int"},
            d \in {None} \cup {Some(Digits(ds)) : ds \in Numerals}}

\* Fields with comments and doc comments in their gaps.
GapTypes ==
    {TKeyword("string"), TIdent(<<"B">>), TArray(TKeyword("int")),
     TMap(TKeyword("int")), TUnion(<<TKeyword("null"), TKeyword("string")>>)}
GapFields(name) ==
    {FieldText(g, None, t, << >>, << >>, name, None, << >>) :
        t \in GapTypes, g \in Gaps}
    \cup {FieldText(<< >>, None, t, m, as, name, d, e) :
            t \in GapTypes, m \in CommentRuns, e \in CommentRuns,
            as \in {<< >>, <<OrderAnnotation("ignore")>>},
            d \in {None, Some(Word("ident"))}}
    \cup {FieldText(g, Some("time-micros"), TKeyword("long"), << >>, << >>, name,
                    None, << >>) : g \in Gaps}

\* Fields with annotations in every order, repeated ones and a bad one.
Annotations ==
    {OrderAnnotation("ignore"), OrderAnnotation("descending"),
     OrderAnnotation("sideways"), AliasesAnnotation(<<"a", "b">>)}
AnnotatedFields ==
    {FieldText(<< >>, None, t, << >>, as, <<"x">>, d, << >>) :
        t \in {TKeyword("string"), TArray(TKeyword("string")), TMap(TKeyword("string"))},
        as \in SeqsUpTo(Annotations, 2),
        d \in {None} \cup {Some(Literal(k, << >>, << >>)) : k \in {"string", "list", "map"}}}

\* `record A { fields }`
RecordOf(fields) == DeclarationText("record", << >>, << >>, <<"A">>, fields, << >>, 0)

\* Declarations with a gap before them and with annotations in every order.
RecordAnnotations ==
    {NamespaceAnnotation("a"), NamespaceAnnotation("b"), AliasesAnnotation(<<"c">>)}
GapDeclarations(name) ==
    {DeclarationText("record", g, as, name, <<string_x>>, << >>, 0) :
        g \in Gaps, as \in {<< >>, <<NamespaceAnnotation("a")>>}}
    \cup {DeclarationText("enum", g, << >>, name, << >>, <<(<<"S">>)>>, 0) : g \in Gaps}
    \cup {DeclarationText("fixed", g, << >>, name, << >>, << >>, 16) : g \in Gaps}
AnnotatedDeclarations ==
    {DeclarationText("record", << >>, as, <<"A">>, <<string_x>>, << >>, 0) :
        as \in SeqsUpTo(RecordAnnotations, 2)}

\* Record names spelled with letters, a digit, `_`, a letter outside ASCII
\* and a symbol.
NameChars == {"A", "1", "_", "e_acute", "-"}
NamedDeclarations ==
    {DeclarationText("record", << >>, << >>, n, <<string_x>>, << >>, 0) :
        n \in SeqsUpTo(NameChars, MaxNameLen)}

\* Enums with no symbol, with one, with two and with the same symbol twice.
SymbolEnums ==
    {EnumItem(<<"A">>, syms) : syms \in SeqsUpTo({<<"S">>, <<"T">>}, 2)}

\* Protocol texts for the field and declaration grammar: one record with one
\* field, or with a plain field (read by parse_union or by parse_array) before
\* a field with a gap; one declaration, or a plain declaration before a
\* declaration with a gap.
TextProtocols ==
    {[namespace |-> None, body |-> <<RecordOf(<<f>>)>>] :
        f \in DefaultFields \cup GapFields(<<"x">>) \cup AnnotatedFields}
    \cup {[namespace |-> None, body |-> <<RecordOf(<<f1, f2>>)>>] :
            f1 \in {string_x, F(TArray(TKeyword("int")), <<"x">>)},
            f2 \in GapFields(<<"y">>)}
    \cup {[namespace |-> None, body |-> <<d>>] :
            d \in GapDeclarations(<<"A">>) \cup AnnotatedDeclarations
                  \cup NamedDeclarations \cup SymbolEnums
                  \cup {RecordOf(<< >>)}}
    \cup {[namespace |-> None, body |-> << >>]}
    \cup {[namespace |-> None, body |-> <<d1, d2>>] :
            d1 \in {RecordItem(<<"A">>, None, <<string_x>>),
                    EnumItem(<<"A">>, <<(<<"S">>)>>), FixedItem(<<"A">>, 16)},
            d2 \in GapDeclarations(<<"B">>)}

InitText == InitOn(TextProtocols)
SpecText == InitText /\ [][Next]_vars

(***************************************************************************)
(* Properties                                                              *)
(***************************************************************************)
\* The namespace under which the fields of a top-level record are resolved.
FieldNamespace(rec) == fully_qualified_name(rec.name, None).namespace

\* The key a Ref is looked up under.
RefKey(ref, rec) == fully_qualified_name(ref.name, FieldNamespace(rec))

\* A Ref with no entry in the table.
Unmatched(s, rec) == s.tag = "Ref" /\ RefKey(s, rec) \notin DOMAIN names_ref

\* A Ref with an entry in the table.
Matched(s, rec) == s.tag = "Ref" /\ RefKey(s, rec) \in DOMAIN names_ref

RECURSIVE NoRef(_)
\* No Ref node anywhere in the tree.
NoRef(s) ==
    /\ s.tag # "Ref"
    /\ \A k \in 1..Len(s.fields) : NoRef(s.fields[k].schema)
    /\ \A k \in 1..Len(s.kids) : NoRef(s.kids[k])

\* C1: a Ref of a record field with no match in the symbol table (its name
\* qualified with the enclosing namespace) makes parse return an error.
C1_UnmatchedRefIsError ==
    (pc = "done" /\ presult = "Ok"
       /\ \E n \in 1..Len(parsed) : \E k \in 1..Len(parsed[n].fields) :
            Unmatched(parsed[n].fields[k].schema, parsed[n]))
    => result = "Err"

\* C2: when parse returns Ok, no Ref node occurs in any returned schema tree,
\* at any depth.
C2_OkIsFullyResolved ==
    result = "Ok" => \A n \in 1..Len(schemas) : NoRef(schemas[n])

\* C3: where a field of a record names a record T and parse has put a copy of
\* T in its place, a field of T that names a declared type U holding no
\* reference itself has U's schema inside the copy too (A has a field of type
\* B, B a field of type C: A's copy of B holds C's Record, not Ref C).
C3_InlinedCopyIsResolved ==
    result = "Ok" =>
        \A n \in 1..Len(parsed) : \A k \in 1..Len(parsed[n].fields) :
            LET f == parsed[n].fields[k].schema
                copy == schemas[n].fields[k].schema
            IN  (Matched(f, parsed[n]) /\ copy.tag = "Record") =>
                    \A m \in 1..Len(names_ref[RefKey(f, parsed[n])].fields) :
                        LET T == names_ref[RefKey(f, parsed[n])]
                            g == T.fields[m].schema
                        IN  (Matched(g, T) /\ NoRef(names_ref[RefKey(g, T)])) =>
                                copy.fields[m].schema = names_ref[RefKey(g, T)]

\* C4: a Ref that is an element of the Array, Map or Union schema of a record
\* field, and has a match in the symbol table, is resolved by parse.
C4_NestedRefsResolved ==
    result = "Ok" =>
        \A n \in 1..Len(parsed) : \A k \in 1..Len(parsed[n].fields) :
            LET f == parsed[n].fields[k].schema
            IN  f.tag \in {"Array", "Map", "Union"} =>
                    \A m \in 1..Len(f.kids) :
                        Matched(f.kids[m], parsed[n]) =>
                            schemas[n].fields[k].schema.kids[m].tag # "Ref"

\* The resolution pass reaches field k of a record: no earlier field of the
\* record is a Ref without a match (the pass leaves a record at such a field).
Reached(rec, k) == \A e \in 1..(k - 1) : ~Unmatched(rec.fields[e].schema, rec)

\* C5: resolution does not depend on declaration order.  Wherever in the body
\* the declaration j a field refers to stands (before the record, after it, or
\* the record itself), parse leaves in the field the declaration j as it was
\* parsed, for every field the resolution pass reaches.
C5_OrderIndependent ==
    result = "Ok" =>
        \A n \in 1..Len(parsed) : \A k \in 1..Len(parsed[n].fields) :
            \A j \in 1..Len(parsed) :
                LET f == parsed[n].fields[k].schema
                IN  (f.tag = "Ref" /\ RefKey(f, parsed[n]) = parsed[j].name) =>
                        schemas[n].fields[k].schema =
                            IF Reached(parsed[n], k) THEN parsed[j] ELSE f

\* Field (n, k) is a Ref that parse replaced by declaration j.
ResolvedTo(n, k, j) ==
    /\ parsed[n].fields[k].schema.tag = "Ref"
    /\ RefKey(parsed[n].fields[k].schema, parsed[n]) = parsed[j].name
    /\ schemas[n].fields[k].schema = parsed[j]

\* C5 witness: one protocol where a reference to a later declaration and a
\* reference to an earlier one have both been resolved.
C5_Witness ==
    /\ result = "Ok"
    /\ \E n \in 1..Len(parsed) : \E j \in 1..Len(parsed) :
         n < j /\ \E k \in 1..Len(parsed[n].fields) : ResolvedTo(n, k, j)
    /\ \E n \in 1..Len(parsed) : \E j \in 1..Len(parsed) :
         j < n /\ \E k \in 1..Len(parsed[n].fields) : ResolvedTo(n, k, j)

\* Two fields of a record item have the same name.
SharesFieldName(d) ==
    /\ d.kind = "record"
    /\ \E a, b \in 1..Len(d.fields) : a < b /\ d.fields[a].name = d.fields[b].name

\* C6: a record in which two fields share a name is not accepted, and neither
\* parse_protocol nor parse returns Ok on a protocol that contains one; a
\* record is rejected as having a duplicate field only if two fields share a name.
C6_DuplicateFieldRejected ==
    /\ \A k \in 1..Len(outcomes) :
         /\ SharesFieldName(input.body[k]) => outcomes[k].st # "Ok"
         /\ outcomes[k].why = "dup_field" => SharesFieldName(input.body[k])
    /\ (presult = "Ok" \/ result = "Ok") =>
         \A k \in 1..Len(input.body) : ~SharesFieldName(input.body[k])

\* C6 witness: after an accepted record with distinct field names, a record
\* with a repeated field name has been rejected and parse has returned Err.
C6_Witness ==
    /\ result = "Err"
    /\ \E k \in 2..Len(outcomes) :
         /\ outcomes[k].why = "dup_field"
         /\ outcomes[k - 1].st = "Ok"
         /\ Len(input.body[k - 1].fields) > 1

\* The name a declaration is recorded under when it is parsed: its simple
\* name and its own @namespace (an enum or a fixed has none).
ItemName(d) ==
    Name(d.name,
         first_string(annotation_value(d.annotations, Len(d.annotations), "namespace")))

\* Declaration k has the fully-qualified name of an earlier declaration.
NameClash(k) == \E j \in 1..(k - 1) : ItemName(input.body[j]) = ItemName(input.body[k])

\* C7: a declaration whose fully-qualified name (simple name and own
\* namespace, as parse_protocol knows it) is that of an earlier declaration is
\* not accepted: if it parses, it is rejected as a duplicate; parse_protocol
\* and parse never return Ok on a protocol with such a declaration, and
\* return Err when the rejection is what ended the body.
C7_DuplicateNameRejected ==
    /\ \A k \in 1..Len(outcomes) :
         NameClash(k) =>
            /\ outcomes[k].st # "Ok"
            /\ parse_declaration(input.body[k]).st = "Ok" =>
                  outcomes[k] = [st |-> "Err", why |-> "dup_name"]
    /\ (\E k \in 1..Len(input.body) : NameClash(k)) =>
         /\ presult # "Ok"
         /\ result # "Ok"
    /\ (pc = "done" /\ outcomes # << >> /\ outcomes[Len(outcomes)].why = "dup_name") =>
         (presult = "Err" /\ result = "Err")

\* C7 witness: a declaration of another kind than the earlier one of the same
\* name has been rejected as a duplicate, and parse has returned Err.
C7_Witness ==
    /\ result = "Err"
    /\ \E k \in 1..Len(outcomes) : \E j \in 1..(k - 1) :
         /\ outcomes[k].why = "dup_name"
         /\ ItemName(input.body[j]) = ItemName(input.body[k])
         /\ input.body[j].kind # input.body[k].kind

\* C8: in the output of a successful parse the named types have pairwise
\* distinct fully-qualified names.
C8_OutputNamesDistinct ==
    result = "Ok" =>
        \A a, b \in 1..Len(schemas) : a # b => schemas[a].name # schemas[b].name

\* A declaration has been read and the element parser returned an error on it.
SomeDeclarationFailed ==
    \E k \in 1..Len(outcomes) : outcomes[k].st \in {"Err", "Failure"}

\* C9: once a declaration of the body has failed to parse or has been
\* rejected as a duplicate, parse_protocol and parse return an error; Ok is
\* returned only with every declaration of the body in the list.
C9_FailureAbortsParse ==
    /\ (SomeDeclarationFailed /\ pc \in {"ret", "solve", "done"}) => presult = "Err"
    /\ (SomeDeclarationFailed /\ pc = "done") => result = "Err"
    /\ presult = "Ok" => Len(parsed) = Len(input.body)
    /\ result = "Ok" => Len(schemas) = Len(input.body)

\* C9 witness: declarations were accepted, a later one failed, and parse has
\* returned Err.
C9_Witness ==
    /\ pc = "done"
    /\ result = "Err"
    /\ Len(schemas) >= 2
    /\ Len(outcomes) = Len(schemas) + 1
    /\ outcomes[Len(outcomes)].st = "Err"

\* C10: a parse call ends with Ok or Err, never with a panic.
C10_NoAbort == result # "Panic"

\* C12: after a record is parsed its fields carry the positions 0, 1, 2, ..
\* in declaration order: the field declared k-th has position k - 1.
C12_FieldPositions ==
    presult = "Ok" =>
        \A n \in 1..Len(parsed) : \A k \in 1..Len(parsed[n].fields) :
            parsed[n].fields[k].position = k - 1

\* C13: a record declared with a namespace of its own in a protocol that
\* declares none still has that namespace in the output of parse.
C13_OwnNamespaceKept ==
    (result = "Ok" /\ input.namespace = None) =>
        \A n \in 1..Len(schemas) :
            (parsed[n].tag = "Record" /\ parsed[n].name.namespace # None) =>
                schemas[n].name.namespace = parsed[n].name.namespace

\* The text of the first field of the first declaration, once it was read.
first_field_read ==
    /\ Len(outcomes) >= 1
    /\ input.body[1].kind = "record"
    /\ Len(input.body[1].fields) >= 1
first_field_text == input.body[1].fields[1]

\* The tags parse_logical_type has an arm for.
LogicalTypeTags == {"timestamp-micros", "time-micros", "duration"}

\* C11: a field whose @logicalType tag is not a recognized logical type makes
\* the declaration fail with an error value; the call does not abort.
C11_UnknownLogicalTypeIsError ==
    (/\ first_field_read
     /\ first_field_text.logical # None
     /\ first_field_text.logical[1] \notin LogicalTypeTags)
        => outcomes[1].st \in {"Err", "Failure"}

\* The record of the text has exactly one field.
single_field == Len(input.body[1].fields) = 1

RECURSIVE strip_zeros(_)
\* A numeral without its leading zeros (the numeral of zero is <<0>>).
strip_zeros(ds) ==
    IF Len(ds) > 1 /\ Head(ds) = 0 THEN strip_zeros(Tail(ds)) ELSE ds

\* a < b for two numerals without leading zeros.
numeral_less(a, b) ==
    \/ Len(a) < Len(b)
    \/ /\ Len(a) = Len(b)
       /\ \E k \in 1..Len(a) :
            a[k] < b[k] /\ \A j \in 1..(k - 1) : a[j] = b[j]

\* The digit sequence is a value of the signed type of the given width.
fits(ds, width) ==
    With(IF width = 32 THEN I32_MAX ELSE I64_MAX, LAMBDA max :
        strip_zeros(ds) = max \/ numeral_less(strip_zeros(ds), max))

\* The signed width of a field's declared type: 32 bits for int, date and
\* time_ms, 64 for long, timestamp_ms and the micros logical types, 0 for a
\* type that is not an integer.
integer_width(f) ==
    IF f.logical # None
    THEN (IF f.logical[1] \in {"timestamp-micros", "time-micros"} THEN 64 ELSE 0)
    ELSE IF f.type.k # "keyword" THEN 0
    ELSE IF f.type.kw \in {"int", "date", "time_ms"} THEN 32
    ELSE IF f.type.kw \in {"long", "timestamp_ms"} THEN 64
    ELSE 0

\* A record whose only field is `T x = digits;` with T an integer type.
integer_default_read ==
    /\ first_field_read
    /\ single_field
    /\ integer_width(first_field_text) # 0
    /\ first_field_text.default # None
    /\ first_field_text.default[1].k = "digits"

\* C14: an integer default is accepted exactly when its digits fit the signed
\* width of the declared type (32 bits for int, date and time_ms, 64 bits for
\* long, timestamp_ms and the micros logical types).
C14_IntegerDefaultFitsWidth ==
    integer_default_read =>
        (outcomes[1].st = "Ok"
            <=> fits(first_field_text.default[1].digits,
                     integer_width(first_field_text)))

\* `int x = 9223372036854775807;` was read and rejected.
C14_Witness ==
    /\ integer_default_read
    /\ first_field_text.logical = None
    /\ first_field_text.type.kw = "int"
    /\ first_field_text.default[1].digits = I64_MAX
    /\ outcomes[1].st = "Err"

RECURSIVE literal_valid(_, _)
\* The literal is a valid default for a type taken alone: null for null,
\* true or false for boolean, digits that fit for the integer types, a number
\* for float and double, a quoted string for string, bytes and decimal, a
\* quoted uuid for uuid, a bracketed list of valid items for an array, a
\* symbol for a named type.
literal_valid(t, lit) ==
    CASE t.k = "keyword" /\ t.kw = "null" -> lit.k = "null"
      [] t.k = "keyword" /\ t.kw = "boolean" -> lit.k \in {"true", "false"}
      [] t.k = "keyword" /\ t.kw \in {"int", "date", "time_ms"} ->
           lit.k = "digits" /\ fits(lit.digits, 32)
      [] t.k = "keyword" /\ t.kw \in {"long", "timestamp_ms"} ->
           lit.k = "digits" /\ fits(lit.digits, 64)
      [] t.k = "keyword" /\ t.kw \in {"float", "double"} ->
           lit.k \in {"digits", "float"}
      [] t.k = "keyword" /\ t.kw \in {"string", "bytes", "decimal"} ->
           lit.k \in {"string", "uuid"}
      [] t.k = "keyword" /\ t.kw = "uuid" -> lit.k = "uuid"
      [] t.k = "array" ->
           /\ lit.k = "list"
           /\ \A n \in 1..Len(lit.items) : literal_valid(t.args[1], lit.items[n])
      [] t.k = "ident" -> lit.k \in {"ident", "null", "true", "false"}
      [] OTHER -> FALSE

\* A record whose only field is `union { T1, .. } x = literal;`.
union_default_read ==
    /\ first_field_read
    /\ single_field
    /\ first_field_text.logical = None
    /\ first_field_text.type.k = "union"
    /\ first_field_text.default # None

\* C15: the default of a union-typed field is checked against the first
\* listed branch only: the field is accepted iff the literal is valid for the
\* first branch, whatever the later branches are.
C15_UnionDefaultFirstBranch ==
    union_default_read =>
        (outcomes[1].st = "Ok"
            <=> literal_valid(first_field_text.type.args[1],
                              first_field_text.default[1]))

\* `union { int, string } x = "..";` was read and rejected: the literal is
\* valid for the second branch only.
C15_Witness ==
    /\ union_default_read
    /\ first_field_text.type.args = <<TKeyword("int"), TKeyword("string")>>
    /\ first_field_text.default[1].k = "string"
    /\ outcomes[1].st = "Err"

\* The shape of a literal.
literal_shape(lit) ==
    CASE lit.k = "null" -> "null"
      [] lit.k \in {"true", "false"} -> "boolean"
      [] lit.k = "digits" -> "digits"
      [] lit.k \in {"string", "uuid"} -> "quoted string"
      [] lit.k = "list" -> "bracketed list"
      [] lit.k = "map" -> "braced map"
      [] OTHER -> lit.k

\* The shape the tag of a declared type selects: null for Null, true/false
\* for Boolean, digits for Int and Long, a quoted string for String, Bytes,
\* Decimal and Uuid, a bracketed list for Array, a braced key/value list for
\* Map; "" for the other types.
selected_shape(t) ==
    CASE t.k = "keyword" /\ t.kw = "null" -> "null"
      [] t.k = "keyword" /\ t.kw = "boolean" -> "boolean"
      [] t.k = "keyword" /\ t.kw \in {"int", "long"} -> "digits"
      [] t.k = "keyword" /\ t.kw \in {"string", "bytes", "decimal", "uuid"} ->
           "quoted string"
      [] t.k = "array" -> "bracketed list"
      [] t.k = "map" -> "braced map"
      [] OTHER -> ""

\* A record whose only field is `T x = literal;` with T a type whose tag
\* selects a shape.
shaped_default_read ==
    /\ first_field_read
    /\ single_field
    /\ first_field_text.logical = None
    /\ first_field_text.default # None
    /\ selected_shape(first_field_text.type) # ""

\* C16: a field declaration with a default is accepted only when the literal
\* has the shape selected by the declared schema's tag; a literal of any other
\* shape makes the declaration fail with an error, whichever alternative of
\* the record-field parser is tried.
C16_DefaultShapeMatchesSchema ==
    (/\ shaped_default_read
     /\ literal_shape(first_field_text.default[1])
            # selected_shape(first_field_text.type))
        => outcomes[1].st = "Err"

\* `boolean x = "..";` was read and rejected.
C16_Witness ==
    /\ shaped_default_read
    /\ first_field_text.type = TKeyword("boolean")
    /\ first_field_text.default[1].k = "string"
    /\ outcomes[1].st = "Err"

\* The gap is one doc comment and nothing else.
doc_comment_alone(gap) == Len(gap) = 1 /\ gap[1].k = "doc"

\* C17: a doc comment standing before a field declaration of a record body is
\* captured as the trimmed doc of the RecordField, and a doc comment standing
\* before a record, enum or fixed declaration of a protocol body as the
\* trimmed doc of that declaration.
C17_DocCommentCaptured ==
    presult = "Ok" =>
        /\ (/\ input.body[1].kind = "record"
            /\ doc_comment_alone(input.body[1].fields[1].lead))
               => parsed[1].fields[1].doc
                    = Some(trim(input.body[1].fields[1].lead[1].text))
        /\ doc_comment_alone(input.body[1].lead)
               => parsed[1].doc = Some(trim(input.body[1].lead[1].text))

\* The gap holds line and block comments only.
plain_comments(gap) == \A n \in 1..Len(gap) : gap[n].k \in {"line", "block"}

\* Every gap of the declaration holds line and block comments only.
comments_only(d) ==
    /\ plain_comments(d.lead)
    /\ \A n \in 1..Len(d.fields) :
        /\ plain_comments(d.fields[n].lead)
        /\ plain_comments(d.fields[n].mid)
        /\ plain_comments(d.fields[n].tail)

\* The declaration with the comments of its gaps taken out.
strip_field(f) == [f EXCEPT !.lead = << >>, !.mid = << >>, !.tail = << >>]
strip_comments(d) ==
    [d EXCEPT !.lead = << >>,
              !.fields = [n \in 1..Len(d.fields) |-> strip_field(d.fields[n])]]

\* C18: line and block comments put between the tokens of an accepted
\* declaration, in any number, leave the result unchanged: the declaration is
\* still accepted and gives the schema of the text without the comments.
C18_CommentsTransparent ==
    (Len(outcomes) >= 1 /\ comments_only(input.body[1])) =>
        With(parse_declaration(strip_comments(input.body[1])), LAMBDA r :
            r.st = "Ok" =>
                /\ outcomes[1].st = "Ok"
                /\ presult = "Ok" => parsed[1] = r.schema)

\* The character classes of the identifier grammar [A-Za-z_][A-Za-z0-9_]*.
name_start(c) == c \in AsciiAlpha \cup {"_"}
name_char(c) == c \in AsciiAlpha \cup AsciiDigit \cup {"_"}

RECURSIVE name_chars_prefix(_)
\* Length of the longest prefix made of [A-Za-z0-9_].
name_chars_prefix(s) ==
    IF s # << >> /\ name_char(Head(s)) THEN 1 + name_chars_prefix(Tail(s)) ELSE 0

\* C19: the identifier parser accepts exactly the longest prefix of its input
\* that matches [A-Za-z_][A-Za-z0-9_]* and returns the rest as remainder; it
\* fails on an empty input and on an input that starts with a digit or a
\* symbol.
C19_IdentifierGrammar ==
    Len(outcomes) >= 1 =>
        With(input.body[1].name, LAMBDA s :
        With(parse_var_name(s), LAMBDA r :
            IF s # << >> /\ name_start(s[1])
            THEN /\ r.st = "Ok"
                 /\ r.out = SubSeq(s, 1, name_chars_prefix(s))
                 /\ r.rest = SubSeq(s, name_chars_prefix(s) + 1, Len(s))
            ELSE r.st = "Err"))

\* The kinds of the annotations of a declaration or of a field.
annotation_kinds(as) == {as[n].k : n \in 1..Len(as)}

\* Two annotations the other way round.
swap_annotations(as) == IF Len(as) = 2 THEN <<as[2], as[1]>> ELSE as

\* The first declaration as the element parser of the body reads it, with
\* the annotations of the declaration and of its fields as given.
first_declaration_with(as, fields) ==
    [input.body[1] EXCEPT !.lead = space_or_comment(@),
                          !.annotations = as,
                          !.fields = fields]

\* The record's only field with its two annotations the other way round.
swapped_fields ==
    <<[first_field_text EXCEPT !.annotations = swap_annotations(@)]>>

\* What was read gives what the declaration parser gives on the text d.
same_as_read(d) ==
    With(parse_declaration(d), LAMBDA r :
        /\ r.st = outcomes[1].st
        /\ presult = "Ok" => parsed[1] = r.schema)

\* A record whose only field carries @order and @aliases, in either order.
order_and_aliases_read ==
    /\ first_field_read
    /\ single_field
    /\ Len(first_field_text.annotations) = 2
    /\ annotation_kinds(first_field_text.annotations) = {"order", "aliases"}

\* A record that carries @aliases and @namespace, in either order.
aliases_and_namespace_read ==
    /\ Len(outcomes) >= 1
    /\ input.body[1].kind = "record"
    /\ Len(input.body[1].annotations) = 2
    /\ annotation_kinds(input.body[1].annotations) = {"aliases", "namespace"}

\* C20: the order of the annotations is irrelevant: a field with @order and
\* @aliases gives the same result whichever comes first, a record with
\* @aliases and @namespace gives the same Record whichever comes first, and a
\* field without @order has the order Ascending.
C20_AnnotationOrderIrrelevant ==
    /\ order_and_aliases_read =>
          same_as_read(first_declaration_with(input.body[1].annotations,
                                              swapped_fields))
    /\ aliases_and_namespace_read =>
          same_as_read(first_declaration_with(
                          swap_annotations(input.body[1].annotations),
                          input.body[1].fields))
    /\ (/\ first_field_read
        /\ presult = "Ok"
        /\ "order" \notin annotation_kinds(first_field_text.annotations))
          => parsed[1].fields[1].order = "ascending"

\* `string x` with @aliases before @order("ignore") was read and accepted
\* with both values, and a record with @aliases before @namespace likewise.
C20_Witness ==
    \/ /\ order_and_aliases_read
       /\ first_field_text.annotations[1].k = "aliases"
       /\ presult = "Ok"
       /\ parsed[1].fields[1].order = first_field_text.annotations[2].v[1]
       /\ parsed[1].fields[1].aliases = Some(first_field_text.annotations[1].v)
    \/ /\ aliases_and_namespace_read
       /\ input.body[1].annotations[1].k = "aliases"
       /\ presult = "Ok"
       /\ parsed[1].name.namespace = Some(input.body[1].annotations[2].v[1])
       /\ parsed[1].aliases = Some(input.body[1].annotations[1].v)

\* C21: every Enum schema of a successful parse has a non-empty symbol list,
\* in declaration order, whose symbols are pairwise distinct.
C21_EnumSymbolsDistinct ==
    result = "Ok" =>
        \A n \in 1..Len(schemas) :
            schemas[n].tag = "Enum" =>
                /\ schemas[n].symbols # << >>
                /\ schemas[n].symbols = input.body[n].symbols
                /\ \A j, k \in 1..Len(schemas[n].symbols) :
                      j # k => schemas[n].symbols[j] # schemas[n].symbols[k]

\* C22: empty bodies are rejected: a record with no field, an enum with no
\* symbol and a protocol with no declaration each fail to parse.
C22_EmptyBodiesRejected ==
    /\ \A k \in 1..Len(outcomes) :
          (\/ input.body[k].kind = "record" /\ input.body[k].fields = << >>
           \/ input.body[k].kind = "enum" /\ input.body[k].symbols = << >>)
             => outcomes[k].st = "Err"
    /\ (input.body = << >> /\ pc # "body") => presult = "Err"
    /\ (input.body = << >> /\ pc = "done") => result = "Err"

\* `protocol P { }`, `record A { }` or `enum A { }` was read and parse
\* returned the error.
C22_Witness ==
    /\ pc = "done"
    /\ result = "Err"
    /\ \/ input.body = << >>
       \/ /\ Len(outcomes) = 1
          /\ input.body[1].kind \in {"record", "enum"}
          /\ input.body[1].fields = << >>
          /\ input.body[1].symbols = << >>

\* A record whose only field is `map<T> x = { "k": v, .. };`, accepted.
map_default_accepted ==
    /\ first_field_read
    /\ single_field
    /\ first_field_text.type.k = "map"
    /\ first_field_text.default # None
    /\ first_field_text.default[1].k = "map"
    /\ presult = "Ok"

\* The entries of the map literal and the entries of the default it gave.
literal_entries == first_field_text.default[1].items
default_entries == parsed[1].fields[1].default[1].items

\* C23: in a map default literal a key that occurs more than once gives one
\* entry of the default, whose value is the one of the key's last occurrence.
C23_MapDefaultLastKeyWins ==
    map_default_accepted =>
        /\ parsed[1].fields[1].default[1].kind = "Object"
        /\ \A m \in 1..Len(default_entries) :
              \E n \in 1..Len(literal_entries) :
                  literal_entries[n].key = default_entries[m].key
        /\ \A n \in 1..Len(literal_entries) :
              /\ Cardinality({m \in 1..Len(default_entries) :
                                default_entries[m].key = literal_entries[n].key}) = 1
              /\ (\A l \in (n + 1)..Len(literal_entries) :
                      literal_entries[l].key # literal_entries[n].key)
                    => \E m \in 1..Len(default_entries) :
                          default_entries[m]
                            = MapEntry(literal_entries[n].key,
                                       Value("Number",
                                             strip_zeros(literal_entries[n].value.digits),
                                             << >>))

\* `map<int> x = {"a": 0, "a": 007};` was accepted with the default {"a": 7}.
C23_Witness ==
    /\ map_default_accepted
    /\ literal_entries = <<MapEntry("a", Digits(<<0>>)), MapEntry("a", Digits(<<0, 0, 7>>))>>
    /\ default_entries = <<MapEntry("a", Value("Number", <<7>>, << >>))>>

\* C24: after a successful parse_protocol started with an empty table, the
\* table holds exactly one entry per declaration of the returned list: its key
\* is the declaration's name as parsed (a record's simple name with its own
\* @namespace, an enum's or a fixed's simple name with no namespace) and its
\* value is the declaration as parsed.
C24_TableMirrorsDeclarations ==
    presult = "Ok" =>
        /\ DOMAIN names_ref = {parsed[n].name : n \in 1..Len(parsed)}
        /\ Cardinality(DOMAIN names_ref) = Len(parsed)
        /\ \A n \in 1..Len(parsed) :
              /\ parsed[n].name = ItemName(input.body[n])
              /\ names_ref[parsed[n].name] = parsed[n]

\* parse_protocol returned a record with a namespace of its own and an enum
\* or a fixed, and the table holds both.
C24_Witness ==
    /\ presult = "Ok"
    /\ Len(parsed) >= 2
    /\ \E n \in 1..Len(parsed) :
          parsed[n].tag = "Record" /\ parsed[n].name.namespace = Some("a")
    /\ \E n \in 1..Len(parsed) : parsed[n].tag \in {"Enum", "Fixed"}
    /\ \A n \in 1..Len(parsed) : names_ref[parsed[n].name] = parsed[n]

\* A field after resolution is the field as parsed, but for the schema of a
\* field that was a Ref.
field_frame_kept(before, after) ==
    /\ [after EXCEPT !.schema = before.schema] = before
    /\ before.schema.tag # "Ref" => after.schema = before.schema

\* A declaration after resolution is the declaration as parsed, but for the
\* namespace of a record and the schemas of its fields that were Refs.
frame_kept(before, after) ==
    IF before.tag # "Record" THEN after = before
    ELSE /\ [after EXCEPT !.name.namespace = before.name.namespace,
                          !.fields = before.fields] = before
         /\ Len(after.fields) = Len(before.fields)
         /\ \A k \in 1..Len(before.fields) :
               field_frame_kept(before.fields[k], after.fields[k])

\* C25: the resolution passes change nothing but Ref nodes and the namespace
\* of records: the output list has the length and the order of the list
\* parse_protocol returned, every field schema that is no Ref, every field
\* name, order, default, doc and alias list, every enum and every fixed is
\* unchanged, and the symbol table is not modified during resolution.
C25_ResolutionFrame ==
    [][/\ presult' = "Ok" =>
             /\ Len(schemas') = Len(parsed')
             /\ \A n \in 1..Len(parsed') : frame_kept(parsed'[n], schemas'[n])
       /\ pc = "solve" => names_ref' = names_ref]_vars

\* parse returned a list in which a Ref was replaced, a record's namespace
\* was changed and an enum or a fixed stands as parsed.
C25_Witness ==
    /\ result = "Ok"
    /\ \E n \in 1..Len(parsed) :
          /\ parsed[n].tag = "Record"
          /\ \E k \in 1..Len(parsed[n].fields) :
                /\ parsed[n].fields[k].schema.tag = "Ref"
                /\ schemas[n].fields[k].schema.tag # "Ref"
    /\ \E n \in 1..Len(parsed) :
          /\ parsed[n].tag = "Record"
          /\ schemas[n].name.namespace # parsed[n].name.namespace
    /\ \E n \in 1..Len(parsed) :
          parsed[n].tag \in {"Enum", "Fixed"} /\ schemas[n] = parsed[n]

\* The field was a Ref and resolution replaced it.
ref_replaced(n, k) ==
    /\ parsed[n].tag = "Record"
    /\ parsed[n].fields[k].schema.tag = "Ref"
    /\ schemas[n].fields[k].schema.tag # "Ref"

\* C26: the resolution pass terminates for every protocol, records that refer
\* to themselves or to each other in a cycle included: each Ref is replaced
\* by one copy of the symbol-table entry, and the copy is not walked again.
C26_ResolutionTerminates ==
    /\ (pc = "solve") ~> (pc = "done" /\ result = "Ok")
    /\ [](presult = "Ok" =>
            \A n \in 1..Len(parsed) : \A k \in 1..Len(parsed[n].fields) :
                ref_replaced(n, k) =>
                    schemas[n].fields[k].schema
                        = names_ref[parsed[n].fields[k].schema.name])

\* parse returned for records that refer to each other in a cycle: the
\* copies still hold the Refs.
C26_Witness ==
    /\ pc = "done"
    /\ result = "Ok"
    /\ \E n \in 1..Len(parsed) :
          /\ ref_replaced(n, 1)
          /\ schemas[n].fields[1].schema.fields[1].schema.tag = "Ref"
    /\ \E n, m \in 1..Len(parsed) :
          /\ n # m
          /\ ref_replaced(n, 1)
          /\ ref_replaced(m, 1)
          /\ parsed[n].fields[1].schema.name = parsed[m].name
          /\ parsed[m].fields[1].schema.name = parsed[n].name

\* The declaration of the list parse_protocol returned that a replaced Ref
\* was resolved to.
inlined_from(n, k, m) ==
    /\ ref_replaced(n, k)
    /\ schemas[n].fields[k].schema.tag = parsed[m].tag
    /\ schemas[n].fields[k].schema.name.name = parsed[m].name.name
    /\ names_ref[parsed[m].name] = schemas[n].fields[k].schema

\* C27: namespace propagation touches top-level records only: after parse a
\* top-level record has the protocol namespace, a record copy that resolution
\* inlined into a field keeps the namespace it was parsed with (which may
\* differ from the one of the same record in the top-level list), and the name
\* of an Enum or a Fixed is never given the protocol namespace.
C27_NamespaceTopLevelOnly ==
    result = "Ok" =>
        \A n \in 1..Len(schemas) :
            /\ parsed[n].tag = "Record" =>
                  /\ schemas[n].name.namespace = namespace
                  /\ \A k \in 1..Len(parsed[n].fields) :
                        ref_replaced(n, k) =>
                            \E m \in 1..Len(parsed) :
                                /\ inlined_from(n, k, m)
                                /\ schemas[n].fields[k].schema.name = parsed[m].name
            /\ parsed[n].tag \in {"Enum", "Fixed"} =>
                  /\ schemas[n].name = parsed[n].name
                  /\ schemas[n].name.namespace = None

\* In a protocol with a namespace, parse returned a record whose field holds
\* the copy of another record of the list: the copy has no namespace, the
\* record of the list has the protocol's.
C27_Witness ==
    /\ result = "Ok"
    /\ namespace = Some("a")
    /\ \E n, m \in 1..Len(parsed) : \E k \in 1..Len(parsed[n].fields) :
          /\ inlined_from(n, k, m)
          /\ parsed[m].tag = "Record"
          /\ schemas[n].fields[k].schema.name.namespace = None
          /\ schemas[m].name.namespace = Some("a")

\* Field k of record n of the list is a Ref that resolution reached: the
\* fields before it were resolved (the first unresolved one ends the walk).
ref_reached(n, k) ==
    /\ parsed[n].tag = "Record"
    /\ k \in 1..Len(parsed[n].fields)
    /\ parsed[n].fields[k].schema.tag = "Ref"
    /\ \A j \in 1..(k - 1) : schemas[n].fields[j].schema.tag # "Ref"

\* A declaration of the list has the simple name `name` and was declared
\* under the namespace ns (an enum and a fixed are declared under none).
registered_under(name, ns) ==
    \E m \in 1..Len(parsed) :
        /\ parsed[m].tag \in {"Record", "Enum", "Fixed"}
        /\ parsed[m].name.name = name
        /\ parsed[m].name.namespace = ns

lookup_namespace(ns) == IF ns = Some("") THEN None ELSE ns

body_accepted ==
    /\ input.body # << >>
    /\ Len(outcomes) = Len(input.body)
    /\ \A n \in 1..Len(outcomes) : outcomes[n].st = "Ok"

\* C29: parse accepts a text as soon as a complete protocol has been read: the
\* text after the closing brace is left unread and decides nothing (parse
\* returns Ok exactly when the body was accepted, whatever follows it), and a
\* successful parse reports an empty remainder whatever text followed.
C29_TrailingTextIgnored ==
    /\ presult = "Ok" => tail = Some(trailer(input))
    /\ result = "Ok" => remainder = Some(<< >>)
    /\ (pc = "done" /\ result # "Panic") => (result = "Ok" <=> body_accepted)

\* parse returned Ok with an empty remainder on a protocol followed by a
\* stray word and a brace.
C29_Witness ==
    /\ result = "Ok"
    /\ trailer(input) = <<"x", "}">>
    /\ tail = Some(<<"x", "}">>)
    /\ remainder = Some(<< >>)


\* A step keeps every entry of the table: same key, same schema.
entries_kept ==
    \A key \in DOMAIN names_ref :
        key \in DOMAIN names_ref' /\ names_ref'[key] = names_ref[key]

\* A step that accepts a declaration accepts one whose name was not a key of
\* the table, and records it under that name.
accepted_was_absent ==
    Len(schemas') > Len(schemas) =>
        /\ schemas'[Len(schemas')].name \notin DOMAIN names_ref
        /\ schemas'[Len(schemas')].name \in DOMAIN names_ref'
        /\ names_ref'[schemas'[Len(schemas')].name] = schemas'[Len(schemas')]

\* C30: parse_protocol never overwrites or removes an entry that is already in
\* the symbol table it is given (a declaration whose name is already a key is
\* rejected instead), and it does not roll back on failure: after it returned
\* an error, the entries of the declarations it accepted before the failing
\* one are still in the table.
C30_TableOnlyGrows ==
    /\ [][entries_kept /\ accepted_was_absent]_vars
    /\ [](presult = "Err" =>
             \A n \in 1..Len(schemas) :
                 /\ schemas[n].name \in DOMAIN names_ref
                 /\ names_ref[schemas[n].name] = schemas[n])

\* import_solver returned the error of parse_protocol on a protocol whose
\* second declaration has a name the given table holds: the given entry is
\* as it was and the first declaration is in the table.
C30_Witness ==
    /\ pc = "done"
    /\ result = "Err"
    /\ Len(schemas) = 1
    /\ Len(outcomes) = 2
    /\ outcomes[2].why = "dup_name"
    /\ Cardinality(DOMAIN names_ref) = 2
    /\ Name(<<"B">>, None) \in DOMAIN names_ref
    /\ names_ref[Name(<<"B">>, None)].fields[1].name = <<"y">>
    /\ schemas[1].name = Name(<<"A">>, None)
    /\ names_ref[schemas[1].name] = schemas[1]

====
